---- MODULE Spec2Model ----
(***************************************************************************)
(* Price tracker: platform routing, page extraction, the scraper edge      *)
(* function, the batch price update (update-all-prices) and the alert      *)
(* evaluator (check-alerts), over the relational store of the migration.   *)
(*                                                                         *)
(* Strings are modelled as sequences of tokens: a domain fragment such as  *)
(* "amazon." is one token, so String.includes(fragment) is membership of   *)
(* the fragment among the (lower-cased) tokens.  Prices are whole rupees.  *)
(* A regular expression match against the fetched markup is an input of    *)
(* the page: for every pattern of a pattern list the page says what the    *)
(* first match of that pattern captures, if anything.                      *)
(***************************************************************************)
EXTENDS Integers, Sequences, FiniteSets, TLC

VARIABLES
    products,     \* products table: id -> row
    trackers,     \* trackers table: id -> row
    snapshots,    \* price_snapshots, per product, in insertion order
    scrapeLogs,   \* scrape_logs, per product, in insertion order
    alerts,       \* alerts, per tracker, in insertion order
    emails,       \* per tracker: notifications the send-email sink accepted
    bPc,          \* update-all-prices: position of the handler
    bProducts,    \* update-all-prices: `products` (the enumeration result)
    bI,           \* update-all-prices: loop variable i
    bResults,     \* update-all-prices: outcome of each promise of the current batch
    bCount,       \* update-all-prices: [updated, failed]
    bResp,        \* update-all-prices: the response body, once reported
    caPc,         \* check-alerts: position of the handler
    caCaller,     \* check-alerts: who invoked it ("cron" or "batch")
    caQueue,      \* check-alerts: `trackers` query result still to be processed
    caCur,        \* check-alerts: the row being processed, with oldPrice
    caCount,      \* check-alerts: [alertsSent, errors]
    obs,          \* observations of the environment and of past states (history)
    xReq,         \* extraction harness: the request (url, fetched page)
    xRes,         \* extraction harness: what the router and the scraper answered
    rq,           \* trackers function: the requests, each with its handler's locals
    view,         \* products function: the last response (product detail query)
    sc,           \* scraper function called on its own: the attempt under way
    ov            \* scraper calls under way at once: the clock, each call's locals,
                  \* and the snapshot_at column of price_snapshots

vars == <<products, trackers, snapshots, scrapeLogs, alerts, emails,
          bPc, bProducts, bI, bResults, bCount, bResp,
          caPc, caCaller, caQueue, caCur, caCount, obs, xReq, xRes, rq, view, sc, ov>>

storeVars == <<products, trackers, snapshots, scrapeLogs, alerts, emails>>
batchVars == <<bPc, bProducts, bI, bResults, bCount, bResp>>
alertVars == <<caPc, caCaller, caQueue, caCur, caCount>>
harnessVars == <<xReq, xRes>>
reqVars == <<rq>>
callVars == <<view, sc, ov>>

-----------------------------------------------------------------------------
(* Bounds of the model *)

\* products in the store of the batch scenarios (two batches need more than 5)
MaxProducts == 6
\* embedded ld+json blocks of a page of the extraction harness
MaxLdBlocks == 2

-----------------------------------------------------------------------------
(* Strings *)

Min(a, b) == IF a <= b THEN a ELSE b

\* String.prototype.toLowerCase, token by token
LowerTok(t) ==
    CASE t = "AMAZON." -> "amazon."
      [] t = "WWW." -> "www."
      [] t = "IN" -> "in"
      [] OTHER -> t

ToLowerCase(s) == [i \in DOMAIN s |-> LowerTok(s[i])]

\* String.prototype.includes for a one-token fragment
Includes(s, frag) == \E i \in DOMAIN s : s[i] = frag

\* A URL: scheme, hostname tokens, path tokens (path may hold "?" and query text)
UrlString(u) == <<"https://">> \o u.host \o <<"/">> \o u.path

\* new URL(url).hostname.toLowerCase()
Hostname(u) == ToLowerCase(u.host)

Hosts ==
    { <<"www.", "amazon.", "in">>,
      <<"WWW.", "AMAZON.", "IN">>,
      <<"www.", "flipkart.", "com">>,
      <<"www.", "myntra.", "com">>,
      <<"www.", "ajio.", "com">>,
      <<"www.", "snapdeal.", "com">>,
      <<"www.", "example.", "com">> }

Paths ==
    { <<"dp", "/", "X">>,
      <<"amazon.", "html">>,
      <<"p", "?", "ref=", "snapdeal.", "com">> }

Urls == [host : Hosts, path : Paths]

-----------------------------------------------------------------------------
(* Platform router *)

\* The refine() predicate of CreateTrackerSchema and of ScrapeRequestSchema
SupportedDomain(u) ==
    LET domain == Hostname(u)
    IN  \/ Includes(domain, "amazon.")
        \/ Includes(domain, "flipkart.")
        \/ Includes(domain, "myntra.")
        \/ Includes(domain, "ajio.")
        \/ Includes(domain, "snapdeal.")

\* extractPlatform(url): "none" stands for null
extractPlatform(u) ==
    LET urlLower == ToLowerCase(UrlString(u))
    IN  IF Includes(urlLower, "amazon.") THEN "Amazon"
        ELSE IF Includes(urlLower, "flipkart.") THEN "Flipkart"
        ELSE IF Includes(urlLower, "myntra.") THEN "Myntra"
        ELSE IF Includes(urlLower, "ajio.") THEN "Ajio"
        ELSE IF Includes(urlLower, "snapdeal.") THEN "Snapdeal"
        ELSE "none"

\* The platform decision of a tracker-creation request: schema, then extractPlatform
ResolveRequest(u) ==
    IF ~SupportedDomain(u) THEN "none" ELSE extractPlatform(u)

-----------------------------------------------------------------------------
(* JavaScript values used by the extractors *)

\* a JS number or null: k is "null", "nan" or "num"
JsNull == [k |-> "null", v |-> 0]
JsNaN == [k |-> "nan", v |-> 0]
JsNum(n) == [k |-> "num", v |-> n]

\* !price
Falsy(x) == x.k = "null" \/ x.k = "nan" \/ (x.k = "num" /\ x.v = 0)

\* jsonData.offers?.price as written in the page: absent, a JSON number, a numeric
\* string, or a string that is no number
RawAbsent == [k |-> "absent", v |-> 0]
RawNum(n) == [k |-> "num", v |-> n]
RawStr(n) == [k |-> "str", v |-> n]
RawJunk == [k |-> "junk", v |-> 0]

\* if (jsonData.offers?.price): undefined and the number 0 are falsy, every
\* non-empty string is truthy
RawTruthy(r) == r.k = "str" \/ r.k = "junk" \/ (r.k = "num" /\ r.v # 0)

\* parseFloat(String(raw))
ParseFloatRaw(r) == IF r.k = "junk" THEN JsNaN ELSE JsNum(r.v)

-----------------------------------------------------------------------------
(* Pages *)

Placeholder == "https://images.unsplash.com/photo-1505740420928-5e560c06d30e"

\* what one pattern's first match captures: no match, or the captured text
NoMatch == [hit |-> FALSE, nan |-> FALSE, v |-> 0, s |-> ""]
\* a price capture ([0-9,]+): digits give a number; commas alone parse to NaN
PriceCap(n) == [hit |-> TRUE, nan |-> FALSE, v |-> n, s |-> ""]
PriceCapNaN == [hit |-> TRUE, nan |-> TRUE, v |-> 0, s |-> ""]
\* a name or image capture
TextCap(t) == [hit |-> TRUE, nan |-> FALSE, v |-> 0, s |-> t]

\* an embedded <script type="application/ld+json"> block: valid = JSON.parse
\* succeeds; "" stands for a missing name, image or availability
LdBlock(valid, name, price, image, availability) ==
    [valid |-> valid, name |-> name, price |-> price, image |-> image,
     availability |-> availability]

\* a name that is given in the block but is no string (a number, or a JSON-LD
\* value object such as {"@value": ..., "@language": ...})
NotAString == "[object Object]"

LdInvalid == LdBlock(FALSE, "", RawAbsent, "", "")
LdBreadcrumb == LdBlock(TRUE, "", RawAbsent, "", "")
LdProduct(name, price) == LdBlock(TRUE, name, price, "", "")

\* a fetched page
MkPage(ld, pricePat, namePat, imagePat, phrases) ==
    [ld |-> ld, pricePat |-> pricePat, namePat |-> namePat,
     imagePat |-> imagePat, phrases |-> phrases]

-----------------------------------------------------------------------------
(* Extractor *)

\* .replace(/[-_]/g, ' ').replace(/\b\w/g, l => l.toUpperCase()), token by token
TitleTok(t) ==
    CASE t = "dp" -> "Dp"
      [] t = "p" -> "P"
      [] t = "html" -> "Html"
      [] t = "amazon." -> "Amazon."
      [] t = "flipkart." -> "Flipkart."
      [] t = "myntra." -> "Myntra."
      [] t = "ajio." -> "Ajio."
      [] t = "snapdeal." -> "Snapdeal."
      [] t = "example." -> "Example."
      [] t = "www." -> "Www."
      [] t = "in" -> "In"
      [] t = "com" -> "Com"
      [] t = "ref=" -> "Ref="
      [] OTHER -> t

RECURSIVE JoinTitle(_)
JoinTitle(toks) ==
    IF toks = <<>> THEN "" ELSE TitleTok(Head(toks)) \o JoinTitle(Tail(toks))

\* the tokens of s before the first "?" or "#"
RECURSIVE BeforeQuery(_)
BeforeQuery(s) ==
    IF s = <<>> \/ Head(s) \in {"?", "#"} THEN <<>>
    ELSE <<Head(s)>> \o BeforeQuery(Tail(s))

\* url.split('/'): the part that ends at position hi (exclusive)
RECURSIVE PartEndingAt(_, _)
PartEndingAt(s, hi) ==
    IF hi <= 1 \/ s[hi - 1] \in {"/", "https://"} THEN <<>>
    ELSE PartEndingAt(s, hi - 1) \o <<s[hi - 1]>>

\* extractNameFromUrl(url): the last part of url.split('/'), or the one before it
\* when the last is empty; cut at ? or #; separators to spaces; title case
\* (the cut to 100 characters never applies to these URLs)
extractNameFromUrl(u) ==
    LET s == UrlString(u)
        last == PartEndingAt(s, Len(s) + 1)
        productSlug == IF last # <<>> THEN last ELSE PartEndingAt(s, Len(s))
    IN  JoinTitle(BeforeQuery(productSlug))

\* html.match(/<script ... ld+json ...>(.*?)<\/script>/is): the FIRST block only
JsonLdMatch(page) == IF Len(page.ld) = 0 THEN <<>> ELSE <<page.ld[1]>>

\* the try { JSON.parse ... } block: [name, price, imageUrl] after it
AfterJsonLd(u, page) ==
    LET start == [name |-> extractNameFromUrl(u), price |-> JsNull,
                  imageUrl |-> Placeholder]
        m == JsonLdMatch(page)
    IN  IF m = <<>> \/ ~m[1].valid THEN start
        ELSE [name |-> IF m[1].name # "" THEN m[1].name ELSE start.name,
              price |-> IF RawTruthy(m[1].price) THEN ParseFloatRaw(m[1].price)
                        ELSE JsNull,
              imageUrl |-> IF m[1].image # "" THEN m[1].image ELSE start.imageUrl]

\* the name pattern loop: first pattern that matches
RECURSIVE FirstNameMatch(_, _)
FirstNameMatch(caps, i) ==
    IF i > Len(caps) THEN ""
    ELSE IF caps[i].hit THEN caps[i].s
    ELSE FirstNameMatch(caps, i + 1)

\* the price pattern loop: price = parseFloat(capture); break when it is a
\* number > 0, else price = null and the next pattern is tried
RECURSIVE PriceFromPatterns(_, _)
PriceFromPatterns(caps, i) ==
    IF i > Len(caps) THEN JsNull
    ELSE IF caps[i].hit /\ ~caps[i].nan /\ caps[i].v > 0 THEN JsNum(caps[i].v)
    ELSE PriceFromPatterns(caps, i + 1)

\* the image pattern loop: first match that is no inline data URI
RECURSIVE FirstImageMatch(_, _)
FirstImageMatch(caps, i) ==
    IF i > Len(caps) THEN ""
    ELSE IF caps[i].hit /\ caps[i].s # "" /\ caps[i].s # "data:image"
         THEN caps[i].s
    ELSE FirstImageMatch(caps, i + 1)

\* the out-of-stock phrases each scraper looks for with html.includes
OutOfStockPhrases(platform) ==
    CASE platform = "Amazon" ->
            {"Currently unavailable", "Out of stock", "Temporarily out of stock"}
      [] platform = "Flipkart" ->
            {"Sold Out", "Out of Stock", "Currently unavailable"}
      [] platform = "Ajio" ->
            {"Out of stock", "Currently unavailable", "Sold out"}
      [] OTHER -> {}

\* html.includes(phrase), case-sensitive: page.phrases are the phrases in the markup
PageIncludes(page, phrase) == phrase \in page.phrases

\* isAvailable of scrapeAmazon / scrapeFlipkart / scrapeAjio, and of scrapeMyntra
\* (which reads offers.availability of the parsed block and no phrase)
IsAvailable(platform, page) ==
    IF platform = "Myntra"
    THEN LET m == JsonLdMatch(page)
         IN  IF m # <<>> /\ m[1].valid /\ m[1].availability # ""
             THEN m[1].availability \in {"http://schema.org/InStock", "InStock"}
             ELSE TRUE
    ELSE \A ph \in OutOfStockPhrases(platform) : ~PageIncludes(page, ph)

\* the fallback price condition of the scrapers: if (!price)
NeedsPriceFallback(price) == Falsy(price)

\* scrapeAmazon / scrapeFlipkart / scrapeMyntra / scrapeAjio on a fetched page
ScrapePage(platform, u, page) ==
    LET ld == AfterJsonLd(u, page)
        nameHit == FirstNameMatch(page.namePat, 1)
        name == IF (ld.name = "" \/ ld.name = extractNameFromUrl(u)) /\ nameHit # ""
                THEN nameHit ELSE ld.name
        price == IF NeedsPriceFallback(ld.price)
                 THEN PriceFromPatterns(page.pricePat, 1) ELSE ld.price
        imgHit == FirstImageMatch(page.imagePat, 1)
        imageUrl == IF ld.imageUrl = Placeholder /\ imgHit # ""
                    THEN imgHit ELSE ld.imageUrl
    IN  IF Falsy(price)
        THEN [ok |-> FALSE, error |-> "Could not extract price", name |-> "",
              price |-> 0, imageUrl |-> "", isAvailable |-> FALSE]
        ELSE IF name = NotAString
        THEN \* console.log(..., { name: name.substring(0, 50), ... }) throws
             [ok |-> FALSE, error |-> "name.substring is not a function",
              name |-> "", price |-> 0, imageUrl |-> "", isAvailable |-> FALSE]
        ELSE [ok |-> TRUE, error |-> "", name |-> name, price |-> price.v,
              imageUrl |-> imageUrl, isAvailable |-> IsAvailable(platform, page)]

\* the body of an error response: "not found" next to a recommended product
ErrorBody ==
    MkPage(<<>>, <<NoMatch, NoMatch, PriceCap(499)>>, <<NoMatch, NoMatch, NoMatch>>,
           <<NoMatch, NoMatch, NoMatch>>, {})

\* what the single GET of a scraper comes back with
FetchPage(page) == [kind |-> "page", status |-> 200, page |-> page]
\* a non-2xx response carries a body too: here a page that lists another offer
FetchHttp(status) == [kind |-> "http", status |-> status, page |-> ErrorBody]
FetchReject == [kind |-> "reject", status |-> 0, page |-> <<>>]

\* a scraper that reads whatever body came back
ResponseOk_AnyStatus(status) == TRUE

\* response.ok: the status is in the range 200-299
ResponseOk(status) == status >= 200 /\ status <= 299

\* new Error(`HTTP ${response.status}: ${response.statusText}`)
HttpErrorMessage(status) == "HTTP " \o ToString(status)

\* one scraper function: fetch, response.ok check, extraction; every throw is
\* rethrown as "Failed to scrape <platform>: ..."
ScrapeUrl(platform, u, fetched) ==
    IF fetched.kind = "reject"
    THEN [ok |-> FALSE, error |-> "fetch failed", name |-> "", price |-> 0,
          imageUrl |-> "", isAvailable |-> FALSE]
    ELSE IF ~ResponseOk(fetched.status)
    THEN [ok |-> FALSE, error |-> HttpErrorMessage(fetched.status), name |-> "",
          price |-> 0, imageUrl |-> "", isAvailable |-> FALSE]
    ELSE ScrapePage(platform, u, fetched.page)

\* the platform switch of the scraper handler
HasScraper(platform) == platform \in {"Amazon", "Flipkart", "Myntra", "Ajio"}

\* the GETs one call of the scraper handler issues: one `await fetch(url, ...)`
\* in the scraper function the switch picks, none when the body is refused or
\* the platform has no case
GetsOfCall(platform, u) ==
    IF SupportedDomain(u) /\ HasScraper(platform) THEN 1 ELSE 0

\* the scraper handler up to productData: schema validation (400), the switch
\* (default: throw Unsupported platform), the scraper
ScraperResult(platform, u, fetched) ==
    IF ~SupportedDomain(u)
          \/ platform \notin {"Amazon", "Flipkart", "Myntra", "Ajio", "Snapdeal"}
    THEN [ok |-> FALSE, error |-> "Invalid request", name |-> "", price |-> 0,
          imageUrl |-> "", isAvailable |-> FALSE]
    ELSE IF ~HasScraper(platform)
    THEN [ok |-> FALSE, error |-> "Unsupported platform", name |-> "", price |-> 0,
          imageUrl |-> "", isAvailable |-> FALSE]
    ELSE ScrapeUrl(platform, u, fetched)

-----------------------------------------------------------------------------
(* The web, as the fetches of a run see it *)

\* a page whose first ld+json block carries offers.price (a numeric string)
PageLd(n) ==
    MkPage(<<LdProduct("Widget", RawStr(n))>>, <<NoMatch, NoMatch, NoMatch>>,
           <<NoMatch, NoMatch, NoMatch>>, <<NoMatch, NoMatch, NoMatch>>, {})

\* a page without structured data whose generic rupee pattern captures n
PagePattern(n) ==
    MkPage(<<>>, <<NoMatch, NoMatch, PriceCap(n)>>,
           <<TextCap("Pattern Name"), NoMatch, NoMatch>>,
           <<NoMatch, NoMatch, NoMatch>>, {})

\* a page from which no price can be had
PageNoPrice ==
    MkPage(<<LdBreadcrumb>>, <<NoMatch, NoMatch, NoMatch>>,
           <<NoMatch, NoMatch, NoMatch>>, <<NoMatch, NoMatch, NoMatch>>,
           {"Currently unavailable"})

\* what a GET of a product URL may come back with during a run, by site
SiteFetches(u) ==
    LET h == Hostname(u)
    IN  IF Includes(h, "amazon.") /\ u.host[1] = "www."
        THEN {FetchReject, FetchPage(PageLd(21990)), FetchPage(PagePattern(22000))}
        ELSE IF Includes(h, "amazon.")
        THEN {FetchHttp(503), FetchPage(PagePattern(22000))}
        ELSE IF Includes(h, "flipkart.")
        THEN {FetchHttp(503), FetchPage(PageLd(21990))}
        ELSE IF Includes(h, "myntra.")
        THEN {FetchPage(PageNoPrice), FetchPage(PageLd(21990))}
        ELSE {FetchReject, FetchPage(PagePattern(21990))}

-----------------------------------------------------------------------------
(* Store: the rows of the migration's tables *)

ProductRow(url, platform, name, latest_price, image_url, is_available) ==
    [url |-> url, platform |-> platform, name |-> name,
     latest_price |-> latest_price, image_url |-> image_url,
     is_available |-> is_available]

\* target_price is nullable: hasTarget = FALSE stands for NULL
TrackerRow(user_id, product_id, hasTarget, target_price, is_active) ==
    [user_id |-> user_id, product_id |-> product_id, hasTarget |-> hasTarget,
     target_price |-> target_price, is_active |-> is_active]

SnapshotRow(price, is_available) == [price |-> price, is_available |-> is_available]

LogRow(status, error_message) == [status |-> status, error_message |-> error_message]

AlertRow(user_id, old_price, new_price, status) ==
    [user_id |-> user_id, old_price |-> old_price, new_price |-> new_price,
     status |-> status]

ProductIds == DOMAIN products
TrackerIds == DOMAIN trackers

\* the placeholder product a tracker-creation request inserts
PlaceholderProduct(u) ==
    ProductRow(u, extractPlatform(u), "Product loading...", 0, "", TRUE)

\* a table with one more row, and a table without the rows of S
Extend(f, k, v) == [x \in (DOMAIN f) \cup {k} |-> IF x = k THEN v ELSE f[x]]
Drop(f, S) == [x \in (DOMAIN f) \ S |-> f[x]]

\* the scheduled functions (update-all-prices, check-alerts) are not running
HandlersIdle == bPc \in {"idle", "done"} /\ caPc \in {"idle", "done"}

\* every request of the trackers function has been answered and no scrape it
\* started is still under way (the scheduled passes are taken to run while the
\* trackers function is quiet)
RequestsQuiet ==
    \A r \in DOMAIN rq : rq[r].pc \in {"none", "done"} /\ rq[r].bg # "pending"

-----------------------------------------------------------------------------
(* scraper edge function *)

\* checkPriceAlerts(supabaseClient, productId, newPrice): the alerts table after it
checkPriceAlerts(productId, newPrice) ==
    [t \in TrackerIds |->
        IF /\ trackers[t].product_id = productId
           /\ trackers[t].is_active
           /\ trackers[t].hasTarget
           /\ newPrice <= trackers[t].target_price
        THEN Append(alerts[t],
                    AlertRow(trackers[t].user_id, trackers[t].target_price,
                             newPrice, "PENDING"))
        ELSE alerts[t]]

\* HTTP status of the scraper's response for a result of ScraperResult
ScraperStatus(res) ==
    IF res.ok THEN 200
    ELSE IF res.error = "Invalid request" THEN 400
    ELSE 500

\* supabaseClient.functions.invoke(...): the promise always fulfils; a non-2xx
\* response is reported in the `error` field of the value it fulfils with
InvokeResult(status) ==
    [settled |-> "fulfilled", error |-> ~(status >= 200 /\ status < 300)]

\* a scraper that records a snapshot only when the price differs from the
\* product's latest price
ScraperHandler_SkipsSamePrice(productId, res) ==
    IF res.ok
    THEN /\ products' = [products EXCEPT ![productId] =
                ProductRow(@.url, @.platform, res.name, res.price, res.imageUrl,
                           res.isAvailable)]
         /\ snapshots' = [snapshots EXCEPT ![productId] =
                IF res.price = products[productId].latest_price THEN @
                ELSE Append(@, SnapshotRow(res.price, res.isAvailable))]
         /\ scrapeLogs' = [scrapeLogs EXCEPT ![productId] =
                Append(@, LogRow("SUCCESS", ""))]
         /\ alerts' = checkPriceAlerts(productId, res.price)
    ELSE IF ScraperStatus(res) = 400
    THEN UNCHANGED <<products, snapshots, scrapeLogs, alerts>>
    ELSE /\ scrapeLogs' = [scrapeLogs EXCEPT ![productId] =
                Append(@, LogRow("FAILED", res.error))]
         /\ UNCHANGED <<products, snapshots, alerts>>

\* The scraper handler for body {productId, url, platform} whose GET came back
\* with `fetched`: the store after it.
ScraperHandler(productId, res) ==
    IF res.ok
    THEN /\ products' = [products EXCEPT ![productId] =
                ProductRow(@.url, @.platform, res.name, res.price, res.imageUrl,
                           res.isAvailable)]
         /\ snapshots' = [snapshots EXCEPT ![productId] =
                Append(@, SnapshotRow(res.price, res.isAvailable))]
         /\ scrapeLogs' = [scrapeLogs EXCEPT ![productId] =
                Append(@, LogRow("SUCCESS", ""))]
         /\ alerts' = checkPriceAlerts(productId, res.price)
    ELSE IF ScraperStatus(res) = 400
    THEN UNCHANGED <<products, snapshots, scrapeLogs, alerts>>
    ELSE /\ scrapeLogs' = [scrapeLogs EXCEPT ![productId] =
                Append(@, LogRow("FAILED", res.error))]
         /\ UNCHANGED <<products, snapshots, alerts>>

-----------------------------------------------------------------------------
(* update-all-prices edge function *)

batchSize == 5

RECURSIVE SetToSeq(_)
\* the rows of a select, in id order
SetToSeq(S) ==
    IF S = {} THEN <<>>
    ELSE LET m == CHOOSE x \in S : \A y \in S : x <= y
         IN  <<m>> \o SetToSeq(S \ {m})

\* one row per active tracker instead: activeTrackers.map(t => t.product_id)
\* without the Set
EnumerateProducts_PerTracker ==
    LET ids == SetToSeq({ t \in TrackerIds : trackers[t].is_active })
    IN  [i \in DOMAIN ids |-> trackers[ids[i]].product_id]

\* [...new Set(activeTrackers.map(t => t.product_id))], then
\* products.select().in('id', productIds)
EnumerateProducts ==
    SetToSeq({ p \in ProductIds :
                 \E t \in TrackerIds :
                     trackers[t].is_active /\ trackers[t].product_id = p })

\* a slice one item longer: products.slice(i, i + batchSize + 1)
Batch_OneMore(i) == SubSeq(bProducts, i + 1, Min(i + batchSize + 1, Len(bProducts)))

\* products.slice(i, i + batchSize)
Batch(i) == SubSeq(bProducts, i + 1, Min(i + batchSize, Len(bProducts)))

\* result.status === 'fulfilled' of the forEach over the settled results
CountsAsUpdated(result) == result.settled = "fulfilled"

\* a fail-fast join instead: the run stops at the first item that came back with
\* an error
ContinuesAfter_FailFast(results) == \A idx \in DOMAIN results : ~results[idx].error

\* Promise.allSettled: the loop goes on whatever the results are
ContinuesAfter(results) == TRUE

NoResults == <<>>

\* the handler starts: enumeration
B_Start ==
    /\ bPc = "idle"
    /\ caPc \in {"idle", "done"}
    /\ RequestsQuiet
    /\ bProducts' = EnumerateProducts
    /\ bI' = 0
    /\ bCount' = [updated |-> 0, failed |-> 0]
    /\ bPc' = "loop"
    /\ obs' = [obs EXCEPT
                 !.preSnap = [p \in ProductIds |-> Len(snapshots[p])],
                 !.preLogs = [p \in ProductIds |-> Len(scrapeLogs[p])],
                 !.preAlerts = [t \in TrackerIds |-> Len(alerts[t])]]
    /\ UNCHANGED <<bResults, bResp, storeVars, alertVars, harnessVars, reqVars,
                   callVars>>

\* loop head with i < products.length: batch.map(product => invoke('scraper', ...))
B_Dispatch ==
    /\ bPc = "loop"
    /\ bI < Len(bProducts)
    /\ bResults' = [idx \in 1..Len(Batch(bI)) |-> [settled |-> "pending", error |-> FALSE]]
    /\ bPc' = "await"
    /\ UNCHANGED <<bProducts, bI, bCount, bResp, storeVars, alertVars, obs, harnessVars, reqVars,
                   callVars>>

\* one invocation of the scraper of the current batch runs and its promise settles
B_ItemSettles(idx) ==
    /\ bPc = "await"
    /\ idx \in DOMAIN bResults
    /\ bResults[idx].settled = "pending"
    /\ LET productId == Batch(bI)[idx]
           row == products[productId]
       IN  \E fetched \in SiteFetches(row.url) :
              LET res == ScraperResult(row.platform, row.url, fetched)
              IN  /\ ScraperHandler(productId, res)
                  /\ bResults' = [bResults EXCEPT ![idx] =
                                     InvokeResult(ScraperStatus(res))]
                  /\ obs' = [obs EXCEPT !.outcome[productId] =
                                IF res.ok THEN "ok" ELSE "error",
                                        !.price[productId] = res.price,
                                        !.gets[productId] =
                                            @ + GetsOfCall(row.platform, row.url),
                                        !.httpStatus[productId] =
                                            IF GetsOfCall(row.platform, row.url) = 1
                                            THEN fetched.status ELSE @]
    /\ UNCHANGED <<trackers, emails, bPc, bProducts, bI, bCount, bResp, alertVars,
                   harnessVars, reqVars,
                   callVars>>

\* the site of one item of the current batch holds the connection and never
\* answers: fetch(url, { headers }) carries no signal and no timeout, so its
\* promise, the scraper's response and the promise of invoke stay pending
B_ItemStalls(idx) ==
    /\ bPc = "await"
    /\ idx \in DOMAIN bResults
    /\ bResults[idx].settled = "pending"
    /\ bResults' = [bResults EXCEPT ![idx].settled = "unanswered"]
    /\ UNCHANGED <<bPc, bProducts, bI, bCount, bResp, storeVars, alertVars, obs,
                   harnessVars, reqVars,
                   callVars>>

\* await Promise.allSettled(promises) returns; results.forEach counts
B_Join ==
    /\ bPc = "await"
    /\ \A idx \in DOMAIN bResults : bResults[idx].settled \in {"fulfilled", "rejected"}
    /\ LET ups == Cardinality({ idx \in DOMAIN bResults :
                                    CountsAsUpdated(bResults[idx]) })
       IN  bCount' = [updated |-> bCount.updated + ups,
                      failed |-> bCount.failed + (Len(bResults) - ups)]
    /\ bPc' = IF ~ContinuesAfter(bResults) THEN "failed"
              ELSE IF bI + batchSize < Len(bProducts) THEN "sleep"
              ELSE "next"
    /\ bResults' = NoResults
    /\ UNCHANGED <<bProducts, bI, bResp, storeVars, alertVars, obs, harnessVars, reqVars,
                   callVars>>

\* the 2 second pause between batches is over
B_Delay ==
    /\ bPc = "sleep"
    /\ bPc' = "next"
    /\ UNCHANGED <<bProducts, bI, bResults, bCount, bResp, storeVars, alertVars, obs,
                   harnessVars, reqVars,
                   callVars>>

\* i += batchSize
B_Advance ==
    /\ bPc = "next"
    /\ bI' = bI + batchSize
    /\ bPc' = "loop"
    /\ UNCHANGED <<bProducts, bResults, bCount, bResp, storeVars, alertVars, obs,
                   harnessVars, reqVars,
                   callVars>>

-----------------------------------------------------------------------------
(* check-alerts edge function *)

\* cron or administrative triggers of check-alerts a run may see besides the one
\* update-all-prices makes
MaxAlertPasses == 1

\* the trackers query: .eq('is_active', true).not('target_price', 'is', null),
\* each row with its product's latest_price as of the query
AlertQuery ==
    LET ids == SetToSeq({ t \in TrackerIds :
                            trackers[t].is_active /\ trackers[t].hasTarget })
    IN  [i \in DOMAIN ids |->
            [id |-> ids[i], user_id |-> trackers[ids[i]].user_id,
             target_price |-> trackers[ids[i]].target_price,
             product_id |-> trackers[ids[i]].product_id,
             latest_price |-> products[trackers[ids[i]].product_id].latest_price]]

\* a strict comparison instead
Triggers_Strict(row) == row.latest_price < row.target_price

\* if (product.latest_price <= tracker.target_price)
Triggers(row) == row.latest_price <= row.target_price

\* the most recent snapshot instead of the one before it: previousSnapshot[0]
OldPrice_Latest(row) ==
    LET snaps == snapshots[row.product_id]
    IN  IF Len(snaps) > 1 THEN snaps[Len(snaps)].price ELSE row.target_price

\* price_snapshots ordered by snapshot_at descending, limit 2; previousSnapshot[1]
\* when there are two, else the target price
OldPrice(row) ==
    LET snaps == snapshots[row.product_id]
    IN  IF Len(snaps) > 1 THEN snaps[Len(snaps) - 1].price ELSE row.target_price

\* the status the alert row is inserted with
InsertedStatus == "SENT"

\* history: what the store held when this pass and the pass before it began
PassBegins(o) ==
    [o EXCEPT !.caPasses = @ + 1,
              !.caPrevCreated = [t \in TrackerIds |-> Len(alerts[t]) - o.caAlertsAt[t]],
              !.caAlertsAt = [t \in TrackerIds |-> Len(alerts[t])],
              !.caSnapPrev = o.caSnap,
              !.caSnap = [p \in ProductIds |-> Len(snapshots[p])]]

CA_Begin(caller) ==
    /\ caPc' = "loop"
    /\ caCaller' = caller
    /\ caQueue' = AlertQuery
    /\ caCount' = [alertsSent |-> 0, errors |-> 0]
    /\ caCur' = caCur

\* check-alerts is triggered on its own
CA_Start ==
    /\ caPc \in {"idle", "done"}
    /\ bPc \in {"idle", "done"}
    /\ RequestsQuiet
    /\ obs.caRuns < MaxAlertPasses
    /\ CA_Begin("cron")
    /\ obs' = PassBegins([obs EXCEPT !.caRuns = @ + 1])
    /\ UNCHANGED <<storeVars, batchVars, harnessVars, reqVars,
                   callVars>>

\* the loop takes a tracker whose price is above its target: nothing happens
CA_Skip ==
    /\ caPc = "loop"
    /\ caQueue # <<>>
    /\ ~Triggers(Head(caQueue))
    /\ caQueue' = Tail(caQueue)
    /\ UNCHANGED <<caPc, caCaller, caCur, caCount, storeVars, batchVars, obs,
                   harnessVars, reqVars,
                   callVars>>

\* the loop takes a tracker whose price is at or below its target: previous
\* price query and alert insert
CA_Insert ==
    /\ caPc = "loop"
    /\ caQueue # <<>>
    /\ Triggers(Head(caQueue))
    /\ LET row == Head(caQueue)
           oldPrice == OldPrice(row)
       IN  /\ alerts' = [alerts EXCEPT ![row.id] =
                  Append(@, AlertRow(row.user_id, oldPrice, row.latest_price,
                                     InsertedStatus))]
           /\ caCur' = [row |-> row, oldPrice |-> oldPrice,
                        alertIdx |-> Len(alerts[row.id]) + 1]
    /\ caPc' = "email"
    /\ UNCHANGED <<caCaller, caQueue, caCount, products, trackers, snapshots,
                   scrapeLogs, emails, batchVars, obs, harnessVars, reqVars,
                   callVars>>

\* ... or the alert insert comes back with an error: console.error, continue
CA_InsertFails ==
    /\ caPc = "loop"
    /\ caQueue # <<>>
    /\ Triggers(Head(caQueue))
    /\ caQueue' = Tail(caQueue)
    /\ UNCHANGED <<caPc, caCaller, caCur, caCount, storeVars, batchVars, obs,
                   harnessVars, reqVars, callVars>>

\* invoke('send-email') for the alert just inserted comes back
CA_Email ==
    /\ caPc = "email"
    /\ \E accepted \in BOOLEAN :
          /\ emails' = IF accepted
                       THEN [emails EXCEPT ![caCur.row.id] = @ \cup {caCur.alertIdx}]
                       ELSE emails
          /\ caCount' = IF accepted
                        THEN [caCount EXCEPT !.alertsSent = @ + 1]
                        ELSE [caCount EXCEPT !.errors = @ + 1]
    /\ caQueue' = Tail(caQueue)
    /\ caPc' = "loop"
    /\ UNCHANGED <<caCaller, caCur, products, trackers, snapshots, scrapeLogs, alerts,
                   batchVars, obs, harnessVars, reqVars,
                   callVars>>

\* the loop is over: the response {alertsSent, errors}
CA_Finish ==
    /\ caPc = "loop"
    /\ caQueue = <<>>
    /\ caPc' = "done"
    /\ UNCHANGED <<caCaller, caQueue, caCur, caCount, storeVars, batchVars, obs,
                   harnessVars, reqVars,
                   callVars>>

-----------------------------------------------------------------------------
(* update-all-prices, after the loop *)

\* the evaluator call moved into the loop, after the first batch
B_InvokeAlerts_AfterFirstBatch ==
    /\ bPc = "loop"
    /\ bI >= Min(batchSize, Len(bProducts))
    /\ bPc' = "alerts"
    /\ CA_Begin("batch")
    /\ obs' = PassBegins(obs)
    /\ UNCHANGED <<bProducts, bI, bResults, bCount, bResp, storeVars, harnessVars, reqVars,
                   callVars>>

\* loop head with i >= products.length: invoke('check-alerts')
B_InvokeAlerts ==
    /\ bPc = "loop"
    /\ bI >= Len(bProducts)
    /\ bPc' = "alerts"
    /\ CA_Begin("batch")
    /\ obs' = PassBegins(obs)
    /\ UNCHANGED <<bProducts, bI, bResults, bCount, bResp, storeVars, harnessVars, reqVars,
                   callVars>>

\* check-alerts has answered: the response {updated, failed, total}
B_Report ==
    /\ bPc = "alerts"
    /\ caPc = "done"
    /\ caCaller = "batch"
    /\ bResp' = [updated |-> bCount.updated, failed |-> bCount.failed,
                 total |-> Len(bProducts)]
    /\ bPc' = "done"
    /\ UNCHANGED <<bProducts, bI, bResults, bCount, storeVars, alertVars, obs,
                   harnessVars, reqVars,
                   callVars>>

-----------------------------------------------------------------------------
(* trackers edge function: POST (create a tracker) and DELETE                *)
(* fn = "part_002" is the handler with CreateTrackerSchema and an awaited    *)
(* scrape, fn = "trackers" the handler of supabase/functions/trackers        *)

\* requests of the trackers function a run may see at the same time
MaxRequests == 2

\* the request body { productUrl, targetPrice? } of a POST by `user`; the other
\* fields are the handler's locals and what it has answered (status 0: nothing yet)
PostRequest(fn, user, url, hasTarget, target) ==
    [pc |-> "new", fn |-> fn, method |-> "POST", user |-> user, url |-> url,
     hasTarget |-> hasTarget, target |-> target, trackerId |-> 0,
     productId |-> 0, found |-> FALSE, created |-> FALSE, scrape |-> "none",
     price |-> 0, bg |-> "none", tracker |-> 0, status |-> 0]

\* a request without productUrl
NoUrl == [host |-> <<>>, path |-> <<>>]

\* the request { id: trackerId } of a DELETE by `user`
DeleteRequest(fn, user, trackerId) ==
    [PostRequest(fn, user, NoUrl, FALSE, 0) EXCEPT !.method = "DELETE",
                                                  !.trackerId = trackerId]

NoRequest == [PostRequest("part_002", "", NoUrl, FALSE, 0) EXCEPT !.pc = "none"]

\* CreateTrackerSchema.safeParse: supported hostname; targetPrice optional,
\* positive, at most 10000000
SchemaAccepts(q) ==
    /\ SupportedDomain(q.url)
    /\ q.hasTarget => (q.target > 0 /\ q.target <= 10000000)

\* the validation of the POST handler: the schema (part_002 only), then
\* extractPlatform
Validates(q) ==
    /\ q.fn = "part_002" => SchemaAccepts(q)
    /\ extractPlatform(q.url) # "none"

\* existingProduct.name === 'Product loading...' || existingProduct.latest_price === 0
Incomplete(row) == row.name = "Product loading..." \/ row.latest_price = 0

\* products.url is UNIQUE: an insert of a url the table holds fails
ProductUrlTaken_NoConstraint(url) == FALSE

ProductUrlTaken(url) == \E p \in ProductIds : products[p].url = url

\* trackers has UNIQUE(user_id, product_id): an insert of a pair it holds fails
TrackerPairTaken_NoConstraint(user, productId) == FALSE

TrackerPairTaken(user, productId) ==
    \E t \in TrackerIds :
        trackers[t].user_id = user /\ trackers[t].product_id = productId

\* part_002 awaits the scraper it invokes; trackers/index.ts does not
Awaited(fn) == fn = "part_002"

\* a handler that gives up when the scrape came back with an error
FailsOnScrapeError_Throws(error) == error

\* if (scrapeResult.error) console.error(...): the error is logged, no more
FailsOnScrapeError(error) == FALSE

\* .delete().eq('id', trackerId) without the user filter
DeleteMatches_AnyOwner(t, trackerId, user) == t = trackerId

\* .delete().eq('id', trackerId).eq('user_id', user.id)
DeleteMatches(t, trackerId, user) == t = trackerId /\ trackers[t].user_id = user

\* gen_random_uuid(): an id no row has had
FreshProductId == Cardinality(ProductIds) + 1
FreshTrackerId == obs.issued + 1

\* the history records get an entry for a new product / a new tracker
ObsWithProduct(o, p) ==
    [o EXCEPT !.outcome = Extend(@, p, "none"), !.price = Extend(@, p, 0),
              !.gets = Extend(@, p, 0), !.httpStatus = Extend(@, p, 0),
              !.preSnap = Extend(@, p, 0), !.preLogs = Extend(@, p, 0),
              !.caSnap = Extend(@, p, 0), !.caSnapPrev = Extend(@, p, 0)]

ObsWithTracker(o, t) ==
    [o EXCEPT !.preAlerts = Extend(@, t, 0), !.caAlertsAt = Extend(@, t, 0),
              !.caPrevCreated = Extend(@, t, 0), !.issued = t]

\* the answer of a request
Answer(r, status) == [rq EXCEPT ![r].pc = "done", ![r].status = status]

\* POST: validation, extractPlatform, and the lookup of the product by url
T_Begin(r) ==
    /\ HandlersIdle
    /\ rq[r].pc = "new"
    /\ rq[r].method = "POST"
    /\ LET q == rq[r]
           existing == { p \in ProductIds : products[p].url = q.url }
       IN  IF ~Validates(q)
           THEN rq' = Answer(r, 400)
           ELSE IF existing # {}
           THEN LET p == CHOOSE x \in existing : TRUE
                IN  rq' = [rq EXCEPT
                             ![r].productId = p,
                             ![r].found = TRUE,
                             ![r].pc = IF q.fn = "part_002" /\ Incomplete(products[p])
                                       THEN "rescrape" ELSE "check"]
           ELSE rq' = [rq EXCEPT ![r].pc = "insert"]
    /\ UNCHANGED <<storeVars, batchVars, alertVars, obs, harnessVars,
                   callVars>>

\* POST, no product found: insert of the placeholder; if (productError) throw
T_InsertProduct(r) ==
    /\ HandlersIdle
    /\ rq[r].pc = "insert"
    /\ LET q == rq[r]
           p == FreshProductId
       IN  IF ProductUrlTaken(q.url)
           THEN /\ rq' = Answer(r, 500)
                /\ UNCHANGED <<products, snapshots, scrapeLogs, obs>>
           ELSE /\ products' = Extend(products, p, PlaceholderProduct(q.url))
                /\ snapshots' = Extend(snapshots, p, <<>>)
                /\ scrapeLogs' = Extend(scrapeLogs, p, <<>>)
                /\ obs' = ObsWithProduct(obs, p)
                /\ rq' = [rq EXCEPT
                            ![r].productId = p,
                            ![r].created = TRUE,
                            ![r].pc = IF Awaited(q.fn) THEN "scrape" ELSE "check",
                            ![r].bg = IF Awaited(q.fn) THEN "none" ELSE "pending"]
    /\ UNCHANGED <<trackers, alerts, emails, batchVars, alertVars, harnessVars,
                   callVars>>

\* the scraper invoked for the product of request r runs and answers
ScrapeFor(r) ==
    LET q == rq[r]
    IN  \E fetched \in SiteFetches(q.url) :
           LET res == ScraperResult(extractPlatform(q.url), q.url, fetched)
               scrapeResult == InvokeResult(ScraperStatus(res))
           IN  /\ ScraperHandler(q.productId, res)
               /\ rq' = [rq EXCEPT
                           ![r].scrape = IF res.ok THEN "ok" ELSE "error",
                           ![r].price = res.price,
                           ![r].bg = IF q.bg = "pending" THEN "ran" ELSE @,
                           ![r].pc = IF q.bg = "pending" THEN @
                                     ELSE IF FailsOnScrapeError(scrapeResult.error)
                                     THEN "done" ELSE "check",
                           ![r].status = IF q.bg # "pending"
                                            /\ FailsOnScrapeError(scrapeResult.error)
                                         THEN 500 ELSE @]

\* POST of part_002: await invoke('scraper') for the new product, or for a
\* product found incomplete
T_Scrape(r) ==
    /\ HandlersIdle
    /\ rq[r].pc \in {"scrape", "rescrape"}
    /\ ScrapeFor(r)
    /\ UNCHANGED <<trackers, emails, batchVars, alertVars, obs, harnessVars,
                   callVars>>

\* POST of trackers/index.ts: the scrape it started without awaiting runs
T_Background(r) ==
    /\ HandlersIdle
    /\ rq[r].bg = "pending"
    /\ ScrapeFor(r)
    /\ UNCHANGED <<trackers, emails, batchVars, alertVars, obs, harnessVars,
                   callVars>>

\* ... or the worker ends after the response and the scrape is never made
T_BackgroundLost(r) ==
    /\ HandlersIdle
    /\ rq[r].bg = "pending"
    /\ rq[r].pc = "done"
    /\ rq' = [rq EXCEPT ![r].bg = "lost"]
    /\ UNCHANGED <<storeVars, batchVars, alertVars, obs, harnessVars,
                   callVars>>

\* POST: the lookup of the user's tracker on the product
T_CheckTracker(r) ==
    /\ HandlersIdle
    /\ rq[r].pc = "check"
    /\ LET q == rq[r]
           existingTracker == { t \in TrackerIds :
                                  /\ trackers[t].user_id = q.user
                                  /\ trackers[t].product_id = q.productId }
       IN  rq' = IF existingTracker # {} THEN Answer(r, 400)
                 ELSE [rq EXCEPT ![r].pc = "tracker"]
    /\ UNCHANGED <<storeVars, batchVars, alertVars, obs, harnessVars,
                   callVars>>

\* POST: insert of the tracker; if (trackerError) throw; else 201
T_InsertTracker(r) ==
    /\ HandlersIdle
    /\ rq[r].pc = "tracker"
    /\ LET q == rq[r]
           t == FreshTrackerId
       IN  IF TrackerPairTaken(q.user, q.productId)
           THEN /\ rq' = Answer(r, 500)
                /\ UNCHANGED <<trackers, alerts, emails, obs>>
           ELSE /\ trackers' = Extend(trackers, t,
                                  TrackerRow(q.user, q.productId, q.hasTarget,
                                             q.target, TRUE))
                /\ alerts' = Extend(alerts, t, <<>>)
                /\ emails' = Extend(emails, t, {})
                /\ obs' = ObsWithTracker(obs, t)
                /\ rq' = [Answer(r, 201) EXCEPT ![r].tracker = t]
    /\ UNCHANGED <<products, snapshots, scrapeLogs, batchVars, alertVars, harnessVars,
                   callVars>>

\* DELETE: the rows with this id and this user go, and with them their alerts
\* (alerts.tracker_id ... ON DELETE CASCADE)
T_Delete(r) ==
    /\ HandlersIdle
    /\ rq[r].pc = "new"
    /\ rq[r].method = "DELETE"
    /\ LET q == rq[r]
           gone == { t \in TrackerIds : DeleteMatches(t, q.trackerId, q.user) }
       IN  /\ trackers' = Drop(trackers, gone)
           /\ alerts' = Drop(alerts, gone)
           /\ emails' = Drop(emails, gone)
    /\ rq' = Answer(r, 200)
    /\ UNCHANGED <<products, snapshots, scrapeLogs, batchVars, alertVars, obs,
                   harnessVars,
                   callVars>>

-----------------------------------------------------------------------------
(* scraper edge function called on its own, store errors included: the steps  *)
(* of the handler between two awaits                                          *)

\* scraper calls of one run
MaxAttempts == 3

NoResult ==
    [ok |-> FALSE, error |-> "", name |-> "", price |-> 0, imageUrl |-> "",
     isAvailable |-> FALSE]

\* the attempt: position, body.productId, productData or the error, the rows of
\* the product as they were when the attempt began, the status and the `error`
\* of the response, and whether the store refused the attempt's log row
Attempt(pc, n, productId, res, known, row, snaps, logs, status, message, logError) ==
    [pc |-> pc, n |-> n, productId |-> productId, res |-> res, known |-> known,
     row |-> row, snaps |-> snaps, logs |-> logs, status |-> status,
     message |-> message, logError |-> logError]

NoRow == ProductRow(NoUrl, "", "", 0, "", FALSE)

NoAttempt == Attempt("idle", 0, 0, NoResult, FALSE, NoRow, <<>>, <<>>, 0, "", FALSE)

\* scrapeError instanceof Error ? scrapeError.message : 'Unknown scraping error'
\* (the error object of a store call is no Error)
StoreErrorMessage == "Unknown scraping error"

\* the outer catch: error instanceof Error ? error.message : 'Unknown error'
ResponseMessage(error) ==
    IF error = StoreErrorMessage THEN "Unknown error" ELSE error

\* a log insert that throws the error the store returned
LogInsertThrows_OnError(logError) == logError

\* await supabaseClient.from('scrape_logs').insert({...}): the client fulfils
\* with {error} and the handler does not look at it
LogInsertThrows(logError) == FALSE

\* the request arrives and the platform's scrape function runs to its end
S_Begin(productId, u) ==
    /\ sc.pc \in {"idle", "done"}
    /\ sc.n < MaxAttempts
    /\ productId \in ProductIds => u = products[productId].url
    /\ \E fetched \in SiteFetches(u) :
          LET res == ScraperResult(extractPlatform(u), u, fetched)
              known == productId \in ProductIds
          IN  sc' = Attempt(IF res.ok THEN "update"
                            ELSE IF ScraperStatus(res) = 400 THEN "done"
                            ELSE "catch",
                            sc.n + 1, productId, res, known,
                            IF known THEN products[productId] ELSE NoRow,
                            IF known THEN snapshots[productId] ELSE <<>>,
                            IF known THEN scrapeLogs[productId] ELSE <<>>,
                            IF ScraperStatus(res) = 400 THEN 400 ELSE 0,
                            IF ScraperStatus(res) = 400 THEN res.error ELSE "",
                            FALSE)
    /\ UNCHANGED <<storeVars, batchVars, alertVars, obs, harnessVars, reqVars, view, ov>>

\* products.update(...).eq('id', productId); if (updateError) throw updateError
\* (no row with this id: nothing is updated and no error is returned)
S_Update ==
    /\ sc.pc = "update"
    /\ \E updateError \in BOOLEAN :
          IF updateError
          THEN /\ sc' = [sc EXCEPT !.pc = "catch", !.res.error = StoreErrorMessage]
               /\ UNCHANGED products
          ELSE /\ sc' = [sc EXCEPT !.pc = "snapshot"]
               /\ products' =
                     IF sc.productId \in ProductIds
                     THEN [products EXCEPT ![sc.productId] =
                              ProductRow(@.url, @.platform, sc.res.name, sc.res.price,
                                         sc.res.imageUrl, sc.res.isAvailable)]
                     ELSE products
    /\ UNCHANGED <<trackers, snapshots, scrapeLogs, alerts, emails, batchVars,
                   alertVars, obs, harnessVars, reqVars, view, ov>>

\* price_snapshots.insert(...); if (snapshotError) throw snapshotError
\* (product_id REFERENCES products(id): no such product is an error)
S_Snapshot ==
    /\ sc.pc = "snapshot"
    /\ \E snapshotError \in BOOLEAN :
          IF snapshotError \/ sc.productId \notin ProductIds
          THEN /\ sc' = [sc EXCEPT !.pc = "catch", !.res.error = StoreErrorMessage]
               /\ UNCHANGED snapshots
          ELSE /\ sc' = [sc EXCEPT !.pc = "log"]
               /\ snapshots' = [snapshots EXCEPT ![sc.productId] =
                      Append(@, SnapshotRow(sc.res.price, sc.res.isAvailable))]
    /\ UNCHANGED <<products, trackers, scrapeLogs, alerts, emails, batchVars,
                   alertVars, obs, harnessVars, reqVars, view, ov>>

\* await scrape_logs.insert({status: 'SUCCESS'}) (its result is not looked at),
\* checkPriceAlerts, the 200 response
S_LogSuccess ==
    /\ sc.pc = "log"
    /\ \E logError \in BOOLEAN :
          /\ scrapeLogs' = IF logError THEN scrapeLogs
                           ELSE [scrapeLogs EXCEPT ![sc.productId] =
                                    Append(@, LogRow("SUCCESS", ""))]
          /\ IF LogInsertThrows(logError)
             THEN /\ sc' = [sc EXCEPT !.pc = "catch", !.res.error = StoreErrorMessage,
                                      !.logError = TRUE]
                  /\ UNCHANGED alerts
             ELSE /\ sc' = [sc EXCEPT !.pc = "done", !.status = 200,
                                      !.logError = logError]
                  /\ alerts' = checkPriceAlerts(sc.productId, sc.res.price)
    /\ UNCHANGED <<products, trackers, snapshots, emails, batchVars, alertVars, obs,
                   harnessVars, reqVars, view, ov>>

\* catch (scrapeError): await scrape_logs.insert({status: 'FAILED', ...}) (its
\* result is not looked at; product_id REFERENCES products(id)), rethrow, 500
S_Catch ==
    /\ sc.pc = "catch"
    /\ \E logError \in BOOLEAN :
          LET refused == logError \/ sc.productId \notin ProductIds
          IN  /\ scrapeLogs' = IF refused THEN scrapeLogs
                               ELSE [scrapeLogs EXCEPT ![sc.productId] =
                                        Append(@, LogRow("FAILED", sc.res.error))]
              /\ sc' = [sc EXCEPT !.pc = "done", !.status = 500,
                                  !.message = IF LogInsertThrows(refused)
                                              THEN "Unknown error"
                                              ELSE ResponseMessage(sc.res.error),
                                  !.logError = sc.logError \/ refused]
    /\ UNCHANGED <<products, trackers, snapshots, alerts, emails, batchVars,
                   alertVars, obs, harnessVars, reqVars, view, ov>>

-----------------------------------------------------------------------------
(* scraper edge function, several calls for one product under way at once:   *)
(* each call is its own isolate, the store serves their statements one at a  *)
(* time, and `new Date()` is read in the isolate before the statement that   *)
(* carries it is sent                                                        *)

\* scraper calls under way at once
MaxOverlap == 2
\* readings of the clock (milliseconds that differ) in one run
MaxClock == 3

Scrapers == 1..MaxOverlap

NoCall == [pc |-> "idle", productId |-> 0, res |-> NoResult, stamp |-> 0]

NoOverlap == [clock |-> 0, snapshot_at |-> <<>>, call |-> <<>>]

\* time passes
O_Tick ==
    /\ ov.clock < MaxClock
    /\ ov' = [ov EXCEPT !.clock = @ + 1]
    /\ UNCHANGED <<storeVars, batchVars, alertVars, obs, harnessVars, reqVars, view, sc>>

\* a call for the product arrives and its scraper function runs to its end
O_Fetch(i, productId) ==
    /\ ov.call[i].pc = "idle"
    /\ productId \in ProductIds
    /\ LET row == products[productId]
       IN  \E fetched \in SiteFetches(row.url) :
              LET res == ScraperResult(row.platform, row.url, fetched)
              IN  ov' = [ov EXCEPT !.call[i] =
                            [pc |-> IF res.ok THEN "update"
                                    ELSE IF ScraperStatus(res) = 400 THEN "done"
                                    ELSE "catch",
                             productId |-> productId, res |-> res, stamp |-> 0]]
    /\ UNCHANGED <<storeVars, batchVars, alertVars, obs, harnessVars, reqVars, view, sc>>

\* the store runs products.update(...).eq('id', productId)
O_Update(i) ==
    /\ ov.call[i].pc = "update"
    /\ LET c == ov.call[i]
       IN  \E updateError \in BOOLEAN :
              IF updateError
              THEN /\ ov' = [ov EXCEPT !.call[i].pc = "catch",
                                       !.call[i].res.error = StoreErrorMessage]
                   /\ UNCHANGED products
              ELSE /\ ov' = [ov EXCEPT !.call[i].pc = "stamp"]
                   /\ products' = [products EXCEPT ![c.productId] =
                          ProductRow(@.url, @.platform, c.res.name, c.res.price,
                                     c.res.imageUrl, c.res.isAvailable)]
    /\ UNCHANGED <<trackers, snapshots, scrapeLogs, alerts, emails, batchVars,
                   alertVars, obs, harnessVars, reqVars, view, sc>>

\* the handler resumes after the update and builds the snapshot row:
\* snapshot_at: new Date().toISOString()
O_Stamp(i) ==
    /\ ov.call[i].pc = "stamp"
    /\ ov' = [ov EXCEPT !.call[i].pc = "insert", !.call[i].stamp = ov.clock]
    /\ UNCHANGED <<storeVars, batchVars, alertVars, obs, harnessVars, reqVars, view, sc>>

\* the store runs price_snapshots.insert({..., snapshot_at})
O_Insert(i) ==
    /\ ov.call[i].pc = "insert"
    /\ LET c == ov.call[i]
       IN  \E snapshotError \in BOOLEAN :
              IF snapshotError
              THEN /\ ov' = [ov EXCEPT !.call[i].pc = "catch",
                                       !.call[i].res.error = StoreErrorMessage]
                   /\ UNCHANGED snapshots
              ELSE /\ ov' = [ov EXCEPT !.call[i].pc = "log",
                                       !.snapshot_at[c.productId] = Append(@, c.stamp)]
                   /\ snapshots' = [snapshots EXCEPT ![c.productId] =
                          Append(@, SnapshotRow(c.res.price, c.res.isAvailable))]
    /\ UNCHANGED <<products, trackers, scrapeLogs, alerts, emails, batchVars,
                   alertVars, obs, harnessVars, reqVars, view, sc>>

\* scrape_logs.insert({status: 'SUCCESS'}), checkPriceAlerts, the 200 response
O_Log(i) ==
    /\ ov.call[i].pc = "log"
    /\ LET c == ov.call[i]
       IN  /\ scrapeLogs' = [scrapeLogs EXCEPT ![c.productId] =
                                Append(@, LogRow("SUCCESS", ""))]
           /\ alerts' = checkPriceAlerts(c.productId, c.res.price)
    /\ ov' = [ov EXCEPT !.call[i].pc = "done"]
    /\ UNCHANGED <<products, trackers, snapshots, emails, batchVars, alertVars, obs,
                   harnessVars, reqVars, view, sc>>

\* catch (scrapeError): scrape_logs.insert({status: 'FAILED', ...}), rethrow, 500
O_Catch(i) ==
    /\ ov.call[i].pc = "catch"
    /\ LET c == ov.call[i]
       IN  scrapeLogs' = [scrapeLogs EXCEPT ![c.productId] =
                             Append(@, LogRow("FAILED", c.res.error))]
    /\ ov' = [ov EXCEPT !.call[i].pc = "done"]
    /\ UNCHANGED <<products, trackers, snapshots, alerts, emails, batchVars,
                   alertVars, obs, harnessVars, reqVars, view, sc>>

-----------------------------------------------------------------------------
(* products edge function: product detail with price history and statistics *)

RECURSIVE Sum(_)
\* prices.reduce((a, b) => a + b, 0)
Sum(prices) == IF prices = <<>> THEN 0 ELSE Head(prices) + Sum(Tail(prices))

\* Math.min(...prices), Math.max(...prices) of a non-empty array
MathMin(prices) ==
    CHOOSE m \in { prices[i] : i \in DOMAIN prices } :
        \A i \in DOMAIN prices : m <= prices[i]
MathMax(prices) ==
    CHOOSE m \in { prices[i] : i \in DOMAIN prices } :
        \A i \in DOMAIN prices : m >= prices[i]

\* Math.round(x * 100) for x = num / den, den > 0, num >= 0: the hundredths of
\* Math.round(x * 100) / 100 (ties go up)
RoundedHundredths(num, den) == (2 * 100 * num + den) \div (2 * den)

\* the whole history instead of the last 30 days
PriceHistory_All(productId, older) == snapshots[productId]

\* price_snapshots of the product with snapshot_at >= thirtyDaysAgo, ascending;
\* `older` of its snapshots were taken before that instant
PriceHistory(productId, older) ==
    SubSeq(snapshots[productId], older + 1, Len(snapshots[productId]))

View(status, productId, older, latest_price, priceHistory, lowestPrice, highestPrice, avgHundredths) ==
    [status |-> status, productId |-> productId, older |-> older,
     latest_price |-> latest_price, priceHistory |-> priceHistory,
     lowestPrice |-> lowestPrice, highestPrice |-> highestPrice,
     avgHundredths |-> avgHundredths]

NoView == View(0, 0, 0, 0, <<>>, 0, 0, 0)

\* GET ?id=productId
P_Query(productId, older) ==
    /\ IF productId \notin ProductIds
       THEN view' = View(500, productId, 0, 0, <<>>, 0, 0, 0)
       ELSE /\ older \in 0..Len(snapshots[productId])
            /\ LET product == products[productId]
                   priceHistory == PriceHistory(productId, older)
                   prices == [i \in DOMAIN priceHistory |-> priceHistory[i].price]
                   lowestPrice == IF Len(prices) > 0 THEN MathMin(prices)
                                  ELSE product.latest_price
                   highestPrice == IF Len(prices) > 0 THEN MathMax(prices)
                                   ELSE product.latest_price
                   avg == IF Len(prices) > 0
                          THEN RoundedHundredths(Sum(prices), Len(prices))
                          ELSE RoundedHundredths(product.latest_price, 1)
               IN  view' = View(200, productId, older, product.latest_price,
                                prices, lowestPrice, highestPrice, avg)
    /\ UNCHANGED <<storeVars, batchVars, alertVars, obs, harnessVars, reqVars, sc, ov>>

-----------------------------------------------------------------------------
(* Extraction harness: one tracker-creation style request, routed and scraped *)

NoAnswer == [platform |-> "", done |-> FALSE]

\* the router decides, then the scraper handler's extraction runs on the page
X_Scrape ==
    /\ xReq.on
    /\ ~xRes.done
    /\ xRes' = [platform |-> ResolveRequest(xReq.url), done |-> TRUE,
                result |-> ScraperResult(ResolveRequest(xReq.url), xReq.url,
                                         xReq.fetched)]
    /\ UNCHANGED <<xReq, storeVars, batchVars, alertVars, obs, reqVars, callVars>>

-----------------------------------------------------------------------------
(* Initial states *)

\* the URLs of the products of the store, all different (products.url is UNIQUE)
HostSeq ==
    << <<"www.", "amazon.", "in">>, <<"www.", "flipkart.", "com">>,
       <<"www.", "myntra.", "com">>, <<"www.", "ajio.", "com">>,
       <<"www.", "snapdeal.", "com">>, <<"WWW.", "AMAZON.", "IN">> >>

PathSeq == << <<"dp", "/", "X">>, <<"amazon.", "html">>,
              <<"p", "?", "ref=", "snapdeal.", "com">> >>

UrlOf(i) ==
    [host |-> HostSeq[((i - 1) % Len(HostSeq)) + 1],
     path |-> PathSeq[(((i - 1) \div Len(HostSeq)) % Len(PathSeq)) + 1]]

\* a product that an earlier run scraped at 22990, when its platform has a scraper
ScrapedProduct(u) ==
    IF HasScraper(extractPlatform(u))
    THEN ProductRow(u, extractPlatform(u), "Widget", 22990, Placeholder, TRUE)
    ELSE PlaceholderProduct(u)

\* the trackers on product 1, by scenario; the other products have one active
\* tracker each, product 2 with a target and the later ones without
TrackersOnFirst ==
    { << TrackerRow("u1", 1, TRUE, 22000, TRUE) >>,
      << TrackerRow("u1", 1, FALSE, 0, TRUE) >>,
      << TrackerRow("u1", 1, TRUE, 22000, FALSE) >>,
      << TrackerRow("u1", 1, TRUE, 22000, TRUE),
         TrackerRow("u2", 1, TRUE, 21990, TRUE),
         TrackerRow("u3", 1, TRUE, 22000, FALSE) >>,
      << TrackerRow("u1", 1, TRUE, 22000, FALSE),
         TrackerRow("u2", 1, FALSE, 0, TRUE) >> }

TrackerOnLater(p) ==
    IF p = 2 THEN TrackerRow("u1", 2, TRUE, 22000, TRUE)
    ELSE TrackerRow("u1", p, FALSE, 0, TRUE)

InitObs(P, T) ==
    [outcome |-> [p \in P |-> "none"], price |-> [p \in P |-> 0],
     gets |-> [p \in P |-> 0], httpStatus |-> [p \in P |-> 0],
     preSnap |-> [p \in P |-> 0], preLogs |-> [p \in P |-> 0],
     preAlerts |-> [t \in T |-> 0],
     caRuns |-> 0, caPasses |-> 0,
     caAlertsAt |-> [t \in T |-> 0], caPrevCreated |-> [t \in T |-> 0],
     caSnap |-> [p \in P |-> 0], caSnapPrev |-> [p \in P |-> 0],
     issued |-> Cardinality(T)]

InitHandlers ==
    /\ bPc = "idle"
    /\ bProducts = <<>>
    /\ bI = 0
    /\ bResults = NoResults
    /\ bCount = [updated |-> 0, failed |-> 0]
    /\ bResp = [updated |-> 0, failed |-> 0, total |-> 0]
    /\ caPc = "idle"
    /\ caCaller = "none"
    /\ caQueue = <<>>
    /\ caCur = [row |-> <<>>, oldPrice |-> 0, alertIdx |-> 0]
    /\ caCount = [alertsSent |-> 0, errors |-> 0]

\* a store with n tracked products, scraped before or still placeholders
InitStore(n, scraped, first) ==
    /\ products = [p \in 1..n |->
                      IF scraped THEN ScrapedProduct(UrlOf(p))
                      ELSE PlaceholderProduct(UrlOf(p))]
    /\ snapshots = [p \in 1..n |->
                      IF scraped /\ HasScraper(extractPlatform(UrlOf(p)))
                      THEN <<SnapshotRow(22990, TRUE)>> ELSE <<>>]
    /\ scrapeLogs = [p \in 1..n |->
                      IF scraped /\ HasScraper(extractPlatform(UrlOf(p)))
                      THEN <<LogRow("SUCCESS", "")>>
                      ELSE IF scraped
                      THEN <<LogRow("FAILED", "Unsupported platform")>> ELSE <<>>]
    /\ trackers = IF n = 0 THEN <<>>
                  ELSE first \o [i \in 1..(n - 1) |-> TrackerOnLater(i + 1)]
    /\ alerts = [t \in DOMAIN trackers |-> <<>>]
    /\ emails = [t \in DOMAIN trackers |-> {}]
    /\ obs = InitObs(1..n, DOMAIN trackers)

Init ==
    /\ InitHandlers
    /\ \E n \in 0..MaxProducts, scraped \in BOOLEAN, first \in TrackersOnFirst :
          InitStore(n, scraped, first)
    /\ xReq = [on |-> FALSE]
    /\ xRes = NoAnswer
    /\ view = NoView
    /\ sc = NoAttempt
    /\ ov = NoOverlap
    /\ rq = <<>>

Next ==
    \/ B_Start
    \/ B_Dispatch
    \/ \E idx \in 1..batchSize : B_ItemSettles(idx)
    \/ B_Join
    \/ B_Delay
    \/ B_Advance
    \/ B_InvokeAlerts
    \/ B_Report
    \/ CA_Start
    \/ CA_Skip
    \/ CA_Insert
    \/ CA_Email
    \/ CA_Finish

Spec == Init /\ [][Next]_vars

\* The batch pass with sites that may leave a GET unanswered.  Every step of a
\* handler that can be taken is taken in the end (the runtime runs a handler
\* whose awaited promise has settled), and a site that answers does so in the
\* end; nothing makes an unanswered GET end.
NextLive ==
    \/ Next
    \/ \E idx \in 1..batchSize : B_ItemStalls(idx)

SpecLive == Init /\ [][NextLive]_vars /\ WF_vars(NextLive)

-----------------------------------------------------------------------------
(* Tracker request specifications: the trackers function, then the scheduled *)
(* passes; the stores hold fewer products than one batch, so the pause       *)
(* between two batches (B_Delay) has no part in them                         *)

UrlAmazon == UrlOf(1)
UrlFlipkart == UrlOf(2)
UrlOther == [host |-> <<"www.", "example.", "com">>, path |-> <<"dp", "/", "X">>]
UrlOtherPath == [host |-> <<"www.", "example.", "com">>, path |-> <<"amazon.", "html">>]

\* the first request of a run
FirstRequests ==
    { PostRequest("part_002", "u1", UrlAmazon, TRUE, 22000),
      PostRequest("part_002", "u2", UrlAmazon, TRUE, 22000),
      PostRequest("part_002", "u2", UrlAmazon, FALSE, 0),
      PostRequest("part_002", "u2", UrlFlipkart, TRUE, 22000),
      PostRequest("part_002", "u2", UrlAmazon, TRUE, 0),
      PostRequest("part_002", "u2", UrlAmazon, TRUE, -5),
      PostRequest("part_002", "u2", UrlOther, TRUE, 22000),
      PostRequest("part_002", "u2", UrlOtherPath, TRUE, 22000),
      PostRequest("trackers", "u2", UrlAmazon, TRUE, 22000),
      PostRequest("trackers", "u2", UrlAmazon, TRUE, -5),
      PostRequest("trackers", "u2", UrlOtherPath, TRUE, 22000),
      DeleteRequest("part_002", "u1", 1),
      DeleteRequest("part_002", "u2", 1),
      DeleteRequest("trackers", "u2", 1) }

\* the requests that may run at the same time as the first
LaterRequests ==
    { NoRequest, PostRequest("part_002", "u2", UrlAmazon, TRUE, 21995) }

\* the store the requests find: empty, or product 1 (scraped before, or still
\* the placeholder) with the tracker of u1 on it
InitTrackers ==
    /\ InitHandlers
    /\ \/ InitStore(0, FALSE, <<>>)
       \/ \E scraped \in BOOLEAN :
             InitStore(1, scraped, <<TrackerRow("u1", 1, TRUE, 22000, TRUE)>>)
    /\ xReq = [on |-> FALSE]
    /\ xRes = NoAnswer
    /\ view = NoView
    /\ sc = NoAttempt
    /\ ov = NoOverlap
    /\ rq \in { f \in [1..MaxRequests -> FirstRequests \cup LaterRequests] :
                  /\ f[1] \in FirstRequests
                  /\ \A i \in 2..MaxRequests : f[i] \in LaterRequests }

\* the steps of the requests of the trackers function
TrackerRequests ==
    \/ \E r \in DOMAIN rq : T_Begin(r)
    \/ \E r \in DOMAIN rq : T_InsertProduct(r)
    \/ \E r \in DOMAIN rq : T_Scrape(r)
    \/ \E r \in DOMAIN rq : T_Background(r)
    \/ \E r \in DOMAIN rq : T_BackgroundLost(r)
    \/ \E r \in DOMAIN rq : T_CheckTracker(r)
    \/ \E r \in DOMAIN rq : T_InsertTracker(r)
    \/ \E r \in DOMAIN rq : T_Delete(r)

\* the requests, then check-alerts passes on their own
NextTrackers ==
    \/ TrackerRequests
    \/ CA_Start
    \/ CA_Skip
    \/ CA_Insert
    \/ CA_Email
    \/ CA_Finish

SpecTrackers == InitTrackers /\ [][NextTrackers]_vars

\* the requests, then a batch pass with the check-alerts pass it invokes
NextTrackersBatch ==
    \/ TrackerRequests
    \/ B_Start
    \/ B_Dispatch
    \/ \E idx \in 1..batchSize : B_ItemSettles(idx)
    \/ B_Join
    \/ B_Advance
    \/ B_InvokeAlerts
    \/ B_Report
    \/ CA_Skip
    \/ CA_Insert
    \/ CA_Email
    \/ CA_Finish

SpecTrackersBatch == InitTrackers /\ [][NextTrackersBatch]_vars

-----------------------------------------------------------------------------
(* Direct calls: the scraper and the products function called on their own   *)
(* for one tracked product, the store refusing writes at will                *)

InitCalls ==
    /\ InitHandlers
    /\ \E scraped \in BOOLEAN :
          InitStore(1, scraped, << TrackerRow("u1", 1, TRUE, 22000, TRUE) >>)
    /\ xReq = [on |-> FALSE]
    /\ xRes = NoAnswer
    /\ view = NoView
    /\ sc = NoAttempt
    /\ ov = NoOverlap
    /\ rq = <<>>

NextCalls ==
    \/ \E productId \in 1..2 : S_Begin(productId, UrlAmazon)
    \/ S_Update
    \/ S_Snapshot
    \/ S_LogSuccess
    \/ S_Catch
    \/ \E productId \in 1..2, older \in 0..(MaxAttempts + 1) : P_Query(productId, older)

SpecCalls == InitCalls /\ [][NextCalls]_vars

-----------------------------------------------------------------------------
(* Overlapping scrapes of one tracked product: a batch item and the re-scrape *)
(* of a tracker-creation request, or the items of two passes                  *)

InitOverlap ==
    /\ InitHandlers
    /\ \E scraped \in BOOLEAN :
          InitStore(1, scraped, << TrackerRow("u1", 1, TRUE, 22000, TRUE) >>)
    /\ xReq = [on |-> FALSE]
    /\ xRes = NoAnswer
    /\ view = NoView
    /\ sc = NoAttempt
    /\ rq = <<>>
    /\ ov = [clock |-> 1,
             snapshot_at |-> [p \in ProductIds |-> [k \in DOMAIN snapshots[p] |-> 0]],
             call |-> [i \in Scrapers |-> NoCall]]

NextOverlap ==
    \/ O_Tick
    \/ \E i \in Scrapers : O_Fetch(i, 1)
    \/ \E i \in Scrapers : O_Update(i)
    \/ \E i \in Scrapers : O_Stamp(i)
    \/ \E i \in Scrapers : O_Insert(i)
    \/ \E i \in Scrapers : O_Log(i)
    \/ \E i \in Scrapers : O_Catch(i)

SpecOverlap == InitOverlap /\ [][NextOverlap]_vars

-----------------------------------------------------------------------------
(* The passes over a small store whose alerts table may refuse an insert; one *)
(* batch holds every product, so the pause between batches has no part        *)

InitAlertFaults ==
    /\ InitHandlers
    /\ \E n \in 1..2, scraped \in BOOLEAN, first \in TrackersOnFirst :
          InitStore(n, scraped, first)
    /\ xReq = [on |-> FALSE]
    /\ xRes = NoAnswer
    /\ view = NoView
    /\ sc = NoAttempt
    /\ ov = NoOverlap
    /\ rq = <<>>

NextAlertFaults ==
    \/ B_Start
    \/ B_Dispatch
    \/ \E idx \in 1..batchSize : B_ItemSettles(idx)
    \/ B_Join
    \/ B_Advance
    \/ B_InvokeAlerts
    \/ B_Report
    \/ CA_Start
    \/ CA_Skip
    \/ CA_Insert
    \/ CA_InsertFails
    \/ CA_Email
    \/ CA_Finish

SpecAlertFaults == InitAlertFaults /\ [][NextAlertFaults]_vars

-----------------------------------------------------------------------------
(* Extraction harness specification *)

HarnessBlocks ==
    { LdInvalid, LdBreadcrumb,
      LdProduct("Widget", RawStr(19999)), LdProduct("", RawNum(19999)),
      LdProduct("Widget", RawNum(0)), LdProduct("Widget", RawStr(0)),
      LdProduct("Widget", RawNum(-5)), LdProduct("Widget", RawJunk) }

HarnessLd == UNION { [1..k -> HarnessBlocks] : k \in 0..MaxLdBlocks }

HarnessPricePats ==
    { <<NoMatch, NoMatch, NoMatch>>,
      <<NoMatch, NoMatch, PriceCap(500)>>,
      <<PriceCap(0), PriceCapNaN, PriceCap(500)>>,
      <<PriceCap(0), NoMatch, NoMatch>> }

HarnessNamePats ==
    { <<NoMatch, NoMatch, NoMatch>>, <<NoMatch, TextCap("Pattern Name"), NoMatch>> }

HarnessPages ==
    { MkPage(ld, pp, np, <<NoMatch, NoMatch, NoMatch>>, {}) :
        ld \in HarnessLd, pp \in HarnessPricePats, np \in HarnessNamePats }

HarnessFetches ==
    {FetchReject, FetchHttp(503)} \cup { FetchPage(pg) : pg \in HarnessPages }

InitExtract ==
    /\ InitHandlers
    /\ InitStore(0, FALSE, <<>>)
    /\ xReq \in [on : {TRUE}, url : Urls, fetched : HarnessFetches]
    /\ xRes = NoAnswer
    /\ view = NoView
    /\ sc = NoAttempt
    /\ ov = NoOverlap
    /\ rq = <<>>

NextExtract == X_Scrape

SpecExtract == InitExtract /\ [][NextExtract]_vars

-----------------------------------------------------------------------------
(* Extraction harness over pages that vary name, image and availability *)

FieldBlocks ==
    {LdInvalid} \cup
    { LdBlock(TRUE, name, price, image, availability) :
        name \in {"", "Widget", "X", NotAString},
        price \in {RawAbsent, RawStr(19999)},
        image \in {"", "https://img.example/ld.jpg"},
        availability \in {"", "http://schema.org/InStock",
                          "http://schema.org/OutOfStock"} }

FieldLd == {<<>>} \cup { <<b>> : b \in FieldBlocks }

FieldPricePats == { <<NoMatch, NoMatch, NoMatch>>, <<NoMatch, NoMatch, PriceCap(500)>> }

FieldImagePats ==
    { <<NoMatch, NoMatch, NoMatch>>,
      <<TextCap("data:image"), NoMatch, NoMatch>>,
      <<TextCap("data:image"), TextCap("https://img.example/pattern.jpg"), NoMatch>> }

FieldPhrases == { {}, {"Currently unavailable"}, {"Sold Out"}, {"Out of stock"} }

FieldPages ==
    { MkPage(ld, pp, np, ip, ph) :
        ld \in FieldLd, pp \in FieldPricePats, np \in HarnessNamePats,
        ip \in FieldImagePats, ph \in FieldPhrases }

InitFields ==
    /\ InitHandlers
    /\ InitStore(0, FALSE, <<>>)
    /\ xReq \in [on : {TRUE}, url : Urls, fetched : { FetchPage(pg) : pg \in FieldPages }]
    /\ xRes = NoAnswer
    /\ view = NoView
    /\ sc = NoAttempt
    /\ ov = NoOverlap
    /\ rq = <<>>

SpecFields == InitFields /\ [][NextExtract]_vars

-----------------------------------------------------------------------------
(* Claims about the batch pass *)

\* the products of the pass whose scraper invocation came back with an error
FailedItems == { i \in DOMAIN bProducts : obs.outcome[bProducts[i]] = "error" }
OkItems == { i \in DOMAIN bProducts : obs.outcome[bProducts[i]] = "ok" }

\* C1: a batch pass over N products of which k scrapes fail reports failed = k,
\* updated = N - k and total = N.
C1_Counts ==
    bPc = "done" =>
        /\ bResp.failed = Cardinality(FailedItems)
        /\ bResp.updated = Len(bProducts) - Cardinality(FailedItems)
        /\ bResp.total = Len(bProducts)

-----------------------------------------------------------------------------
(* Claims about the alert evaluator *)

\* a tracker the evaluator has to alert: active, with a target, price at or below it
Qualifies(t) ==
    /\ trackers[t].is_active
    /\ trackers[t].hasTarget
    /\ products[trackers[t].product_id].latest_price <= trackers[t].target_price

\* alert rows the running (or last) check-alerts pass has inserted for tracker t
CreatedByPass(t) == Len(alerts[t]) - obs.caAlertsAt[t]

C4_OncePerTransition ==
    [][(caPc = "loop" /\ caPc' = "done" /\ obs.caPasses >= 2
            /\ obs.caSnap = obs.caSnapPrev) =>
          \A t \in TrackerIds : obs.caPrevCreated[t] >= 1 => CreatedByPass(t) = 0]_vars

\* C5: Alert rows are created only by the evaluator pass, so a full batch pass
\* leaves exactly one new Alert row per qualifying tracker and none for the others
\* (stated of the step that reports the pass).
C5_OnlyEvaluatorAlerts ==
    [][(bPc = "alerts" /\ bPc' = "done") =>
          \A t \in TrackerIds :
              Len(alerts[t]) - obs.preAlerts[t] = IF Qualifies(t) THEN 1 ELSE 0]_vars

\* C6: an Alert row carries status SENT only once its notification has been handed
\* to the sink and accepted; until then (and from creation) it is PENDING.
C6_SentOnlyAfterDelivery ==
    \A t \in TrackerIds :
        \A i \in DOMAIN alerts[t] :
            alerts[t][i].status = "SENT" => i \in emails[t]

-----------------------------------------------------------------------------
(* Claims about routing and extraction *)

\* the platform of a hostname by the fragment table, first match first
PlatformOfHost(h) ==
    IF Includes(h, "amazon.") THEN "Amazon"
    ELSE IF Includes(h, "flipkart.") THEN "Flipkart"
    ELSE IF Includes(h, "myntra.") THEN "Myntra"
    ELSE IF Includes(h, "ajio.") THEN "Ajio"
    ELSE IF Includes(h, "snapdeal.") THEN "Snapdeal"
    ELSE "none"

\* offers.price of a block when it is a positive number (given as number or string)
PositiveOffer(b) == b.valid /\ b.price.k \in {"num", "str"} /\ b.price.v > 0

\* the page's structured product descriptors: the blocks with a positive offers.price
Descriptors(page) == { i \in DOMAIN page.ld : PositiveOffer(page.ld[i]) }

\* the page holds a valid positive price where the extractors look for one: in
\* the first ld+json block or in the capture of a price pattern
PageHasPrice(page) ==
    \/ 1 \in Descriptors(page)
    \/ \E i \in DOMAIN page.pricePat :
          page.pricePat[i].hit /\ ~page.pricePat[i].nan /\ page.pricePat[i].v > 0

IsPage == xReq.on /\ xRes.done /\ xReq.fetched.kind = "page"

\* C7: every ScrapedProduct that extraction returns has a price strictly greater
\* than 0; a structured price that is zero, negative or non-numeric never gets
\* through.
C7_PositivePrice ==
    (xReq.on /\ xRes.done /\ xRes.result.ok) => xRes.result.price > 0

\* C8: for every page with a structured product descriptor block carrying a
\* positive offers.price, extraction returns exactly that price, whatever the
\* patterns would find and wherever the block sits among the ld+json blocks.
C8_StructuredPriceWins ==
    (IsPage /\ HasScraper(xRes.platform) /\ Descriptors(xReq.fetched.page) # {}) =>
        /\ xRes.result.ok
        /\ \E i \in Descriptors(xReq.fetched.page) :
              xRes.result.price = xReq.fetched.page.ld[i].price.v

\* C9: resolvePlatform decides by the hostname alone: the platform of the
\* hostname's fragment, unsupported for every other hostname; path and query text
\* never change the result.
C9_HostnameDecides ==
    (xReq.on /\ xRes.done) => xRes.platform = PlatformOfHost(Hostname(xReq.url))

\* C10: a scrape request for a product on any platform the router accepts whose
\* fetched page holds a valid positive price succeeds.
C10_AcceptedPlatformScrapes ==
    (IsPage /\ xRes.platform # "none" /\ PageHasPrice(xReq.fetched.page)) =>
        xRes.result.ok

-----------------------------------------------------------------------------
(* Claims about tracker creation and deletion *)

\* a POST that passed validation
IsCreate(q) == q.method = "POST" /\ q.pc # "none" /\ Validates(q)

UniqueUrls ==
    \A p1, p2 \in ProductIds : products[p1].url = products[p2].url => p1 = p2

\* C11: no two Product rows ever have the same url; a request whose url has a
\* Product when it looks it up resolves to that Product's id and inserts none;
\* a Product is inserted only for a url that has none, and as the placeholder
\* (name 'Product loading...', latest_price 0).
C11_ProductPerUrl ==
    [][/\ UniqueUrls'
       /\ \A p \in ProductIds' \ ProductIds :
             /\ products'[p].name = "Product loading..."
             /\ products'[p].latest_price = 0
             /\ ~\E p0 \in ProductIds : products[p0].url = products'[p].url
       /\ \A r \in DOMAIN rq :
             (IsCreate(rq[r]) /\ rq[r].pc = "new" /\ rq'[r].pc # "new"
                 /\ \E p0 \in ProductIds : products[p0].url = rq[r].url) =>
                /\ products' = products
                /\ rq'[r].found /\ ~rq'[r].created
                /\ products[rq'[r].productId].url = rq[r].url]_vars

\* C11 witness: two answered requests for one url, the first of which inserted
\* the Product that the second resolved to
C11_Witness ==
    \E r1, r2 \in DOMAIN rq :
        /\ rq[r1].pc = "done" /\ rq[r2].pc = "done"
        /\ rq[r1].created /\ rq[r2].found /\ ~rq[r2].created
        /\ rq[r1].url = rq[r2].url
        /\ rq[r1].productId = rq[r2].productId
        /\ Cardinality(ProductIds) = 1

\* C12: two requests by different users for the same url, neither of which
\* found a Product at its lookup, both end with status 201 and a Tracker on the
\* one Product of that url.
C12_ConcurrentCreateBothSucceed ==
    \A r1, r2 \in DOMAIN rq :
        (/\ r1 # r2
         /\ IsCreate(rq[r1]) /\ IsCreate(rq[r2])
         /\ rq[r1].pc = "done" /\ rq[r2].pc = "done"
         /\ ~rq[r1].found /\ ~rq[r2].found
         /\ rq[r1].url = rq[r2].url
         /\ rq[r1].user # rq[r2].user) =>
            /\ rq[r1].status = 201 /\ rq[r2].status = 201
            /\ rq[r1].productId = rq[r2].productId

\* C13: there is at most one Tracker per (user_id, product_id) pair in every
\* reachable state.
C13_OneTrackerPerPair ==
    \A t1, t2 \in TrackerIds :
        (/\ trackers[t1].user_id = trackers[t2].user_id
         /\ trackers[t1].product_id = trackers[t2].product_id) => t1 = t2

\* C13 witness: two requests of one user for one product that both passed the
\* existence check; one inserted the Tracker, the insert of the other failed
C13_Witness ==
    \E r1, r2 \in DOMAIN rq :
        /\ r1 # r2
        /\ rq[r1].user = rq[r2].user
        /\ rq[r1].productId # 0 /\ rq[r1].productId = rq[r2].productId
        /\ rq[r1].status = 201 /\ rq[r1].tracker \in TrackerIds
        /\ rq[r2].pc = "done" /\ rq[r2].status = 500

\* C14: a creation request that got as far as a Product and whose (user,
\* product) pair has a Tracker that is not its own is answered with status 400.
C14_DuplicateIs400 ==
    \A r \in DOMAIN rq :
        (/\ IsCreate(rq[r]) /\ rq[r].pc = "done"
         /\ rq[r].productId # 0 /\ rq[r].tracker = 0
         /\ TrackerPairTaken(rq[r].user, rq[r].productId)) =>
            rq[r].status = 400

\* C15: a creation request whose url has an unsupported hostname or whose
\* targetPrice is zero or negative is answered with status 400 and has written
\* nothing: no Product, no Tracker, no scrape.
C15_InvalidIsRejected ==
    \A r \in DOMAIN rq :
        (/\ rq[r].method = "POST" /\ rq[r].pc = "done"
         /\ \/ ~SupportedDomain(rq[r].url)
            \/ rq[r].hasTarget /\ rq[r].target <= 0) =>
            /\ rq[r].status = 400
            /\ ~rq[r].created /\ rq[r].tracker = 0 /\ rq[r].scrape = "none"

\* the products of the pass under way
Enumerated == { bProducts[i] : i \in DOMAIN bProducts }

C17_DeleteIsScoped ==
    [][\A r \in DOMAIN rq :
          (rq[r].method = "DELETE" /\ rq[r].pc = "new" /\ rq'[r].pc = "done") =>
             /\ products' = products
             /\ snapshots' = snapshots
             /\ scrapeLogs' = scrapeLogs
             /\ \A t \in TrackerIds :
                   (t # rq[r].trackerId \/ trackers[t].user_id # rq[r].user) =>
                      /\ t \in TrackerIds'
                      /\ trackers'[t] = trackers[t]
                      /\ alerts'[t] = alerts[t]
                      /\ emails'[t] = emails[t]]_vars

\* C17 witness: an answered DELETE by a user who does not own the tracker it
\* names; the tracker is there with the alert it had
C17_Witness ==
    \E r \in DOMAIN rq :
        /\ rq[r].method = "DELETE" /\ rq[r].pc = "done" /\ rq[r].status = 200
        /\ rq[r].trackerId \in TrackerIds
        /\ trackers[rq[r].trackerId].user_id # rq[r].user
        /\ alerts[rq[r].trackerId] # <<>>

\* the SUCCESS rows among scrape logs
RECURSIVE Successes(_)
Successes(logs) ==
    IF logs = <<>> THEN 0
    ELSE (IF Head(logs).status = "SUCCESS" THEN 1 ELSE 0) + Successes(Tail(logs))

\* C18: snapshots are append-only: every step keeps each product's snapshots as
\* they were, or appends one; a step that logs a successful scrape appends exactly
\* one, a step that logs a failed scrape none; so a product has as many
\* snapshots as successful scrapes, equal prices included.
C18_SnapshotsAppendOnly ==
    [][\A p \in ProductIds :
          LET n == Len(snapshots[p])
              ok == Successes(scrapeLogs'[p]) - Successes(scrapeLogs[p])
          IN  /\ p \in ProductIds'
              /\ Len(snapshots'[p]) >= n
              /\ SubSeq(snapshots'[p], 1, n) = snapshots[p]
              /\ ok \in {0, 1}
              /\ Len(snapshots'[p]) = n + ok
              /\ Successes(scrapeLogs'[p]) = Len(snapshots'[p])]_vars

\* C18 witness: a product scraped three times, once without success and twice
\* to the same price, with two snapshots
C18_Witness ==
    \E p \in ProductIds :
        /\ Len(scrapeLogs[p]) = 3
        /\ Successes(scrapeLogs[p]) = 2
        /\ Len(snapshots[p]) = 2
        /\ snapshots[p][1].price = snapshots[p][2].price

\* a request that created product and tracker, whose creation-time scrape
\* extracted a price at or below its target, and whose product no other request
\* touched
EndToEnd(r) ==
    /\ rq[r].method = "POST"
    /\ rq[r].created /\ rq[r].scrape = "ok"
    /\ rq[r].hasTarget /\ rq[r].price <= rq[r].target
    /\ rq[r].status = 201 /\ rq[r].tracker \in TrackerIds
    /\ \A r2 \in DOMAIN rq : r2 # r => rq[r2].productId # rq[r].productId

\* C19: when a tracker with target T is created on an unknown url and the
\* creation-time scrape extracts p <= T, then at the answer the Product has
\* latest_price p, one snapshot and one SUCCESS log and the tracker has no Alert;
\* the check-alerts pass after it leaves exactly one Alert of that tracker, with
\* new_price p.
C19_EndToEnd ==
    [][\A r \in DOMAIN rq :
          /\ (rq[r].pc # "done" /\ rq'[r].pc = "done" /\ EndToEnd(r)') =>
                /\ products'[rq'[r].productId].latest_price = rq'[r].price
                /\ Len(snapshots'[rq'[r].productId]) = 1
                /\ snapshots'[rq'[r].productId][1].price = rq'[r].price
                /\ Len(scrapeLogs'[rq'[r].productId]) = 1
                /\ scrapeLogs'[rq'[r].productId][1].status = "SUCCESS"
                /\ alerts'[rq'[r].tracker] = <<>>
          /\ (caPc = "loop" /\ caPc' = "done" /\ obs.caPasses = 1 /\ EndToEnd(r)) =>
                /\ Len(alerts'[rq[r].tracker]) = 1
                /\ alerts'[rq[r].tracker][1].new_price = rq[r].price]_vars

-----------------------------------------------------------------------------
(* Claims about termination *)

\* C20: every batch run that has enumerated its products completes in the end
\* and reports {updated, failed, total}; no join waits forever.
C20_BatchCompletes ==
    (bPc = "loop") ~> (bPc = "done" /\ bResp.total = Len(bProducts))

-----------------------------------------------------------------------------
(* Claims about the product detail query *)

\* the prices of the product's snapshots taken within the last 30 days, when
\* `older` of its snapshots are older than that
WindowPrices(productId, older) ==
    [i \in 1..(Len(snapshots[productId]) - older) |->
        snapshots[productId][older + i].price]

\* C21: the statistics of a product detail response satisfy lowestPrice <=
\* avgPrice <= highestPrice, lowestPrice and highestPrice are the least and the
\* greatest snapshot price of the 30-day window, and with no snapshot in the
\* window all three are the product's latest_price (stated of the step that
\* answers; avgPrice is in hundredths).
C21_Statistics ==
    [][(view' # view /\ view'.status = 200) =>
          LET w == WindowPrices(view'.productId, view'.older)
              v == view'
          IN  /\ 100 * v.lowestPrice <= v.avgHundredths
              /\ v.avgHundredths <= 100 * v.highestPrice
              /\ w # <<>> =>
                    /\ \E i \in DOMAIN w : v.lowestPrice = w[i]
                    /\ \E i \in DOMAIN w : v.highestPrice = w[i]
                    /\ \A i \in DOMAIN w :
                          v.lowestPrice <= w[i] /\ w[i] <= v.highestPrice
              /\ w = <<>> =>
                    /\ v.lowestPrice = products[v.productId].latest_price
                    /\ v.highestPrice = products[v.productId].latest_price
                    /\ v.avgHundredths = 100 * products[v.productId].latest_price]_vars

\* C21 witness: a response over a window of three snapshots with two prices and
\* an average that is no whole number, an older and dearer snapshot outside it
C21_Witness ==
    /\ view.status = 200
    /\ view.older = 1
    /\ Len(view.priceHistory) = 3
    /\ view.lowestPrice < view.highestPrice
    /\ view.avgHundredths % 100 # 0
    /\ 100 * view.lowestPrice < view.avgHundredths
    /\ snapshots[view.productId][1].price > view.highestPrice

-----------------------------------------------------------------------------
(* Claims about enumeration, batching and the evaluator call of a pass *)

\* the products that at least one active tracker references
ActivelyTracked == { trackers[t].product_id : t \in { x \in TrackerIds : trackers[x].is_active } }

\* C22: the enumeration of a pass holds every product that an active tracker
\* references once, and no other product; the items dispatched together are
\* different products; and when the pass reports, a product that was not
\* enumerated has run no pipeline and has its row, snapshots and logs as before.
C22_DispatchedOnce ==
    [][/\ (bPc = "idle" /\ bPc' = "loop") =>
             /\ \A i, j \in DOMAIN bProducts' : i # j => bProducts'[i] # bProducts'[j]
             /\ { bProducts'[i] : i \in DOMAIN bProducts' } = ActivelyTracked
       /\ (bPc = "loop" /\ bPc' = "await") =>
             /\ Len(bResults') = Len(Batch(bI))
             /\ \A i, j \in DOMAIN bResults' : i # j => Batch(bI)[i] # Batch(bI)[j]
       /\ (bPc = "alerts" /\ bPc' = "done") =>
             \A p \in ProductIds \ Enumerated :
                 /\ obs.outcome[p] = "none"
                 /\ Len(scrapeLogs[p]) = obs.preLogs[p]
                 /\ Len(snapshots[p]) = obs.preSnap[p]]_vars

\* C22 witness: a reported pass over a store where two active trackers and an
\* inactive one reference the first product, which ran one pipeline
C22_Witness ==
    /\ bPc = "done"
    /\ Cardinality({ t \in TrackerIds :
                        trackers[t].product_id = 1 /\ trackers[t].is_active }) = 2
    /\ \E t \in TrackerIds : trackers[t].product_id = 1 /\ ~trackers[t].is_active
    /\ Cardinality({ i \in DOMAIN bProducts : bProducts[i] = 1 }) = 1
    /\ Len(scrapeLogs[1]) = obs.preLogs[1] + 1
    /\ Len(bProducts) > 1

\* C23: at most 5 pipelines of a pass run at a time; a batch is dispatched only
\* when every item before it has settled and no item after it has started; the
\* batches are the consecutive runs of 5 of the enumeration, the last one holding
\* what is left.
C23_BatchesInSequence ==
    [][/\ Len(bResults') <= batchSize
       /\ (bPc = "loop" /\ bPc' = "await") =>
             /\ bI % batchSize = 0
             /\ bResults = NoResults
             /\ \A i \in DOMAIN bProducts :
                   (i <= bI) <=> (obs.outcome[bProducts[i]] # "none")
             /\ Len(bResults') = IF bI + batchSize <= Len(bProducts) THEN batchSize
                                 ELSE Len(bProducts) - bI
             /\ \A idx \in DOMAIN bResults' : bResults'[idx].settled = "pending"
       /\ (bPc = "await" /\ bPc' = "await") =>
             \A idx \in DOMAIN bResults :
                 bResults'[idx] # bResults[idx] =>
                     /\ obs.outcome[bProducts[bI + idx]] = "none"
                     /\ obs'.outcome[bProducts[bI + idx]] # "none"
                     /\ \A i \in DOMAIN bProducts :
                           i # bI + idx => obs'.outcome[bProducts[i]] = obs.outcome[bProducts[i]]
       /\ (bPc = "await" /\ bPc' # "await") =>
             \A idx \in DOMAIN bResults : obs.outcome[bProducts[bI + idx]] # "none"]_vars

\* C23 witness: the second batch of a pass over six products is under way, the
\* five items of the first batch settled, one of them with an error
C23_Witness ==
    /\ bPc = "await"
    /\ bI = batchSize
    /\ Len(bProducts) = batchSize + 1
    /\ Len(bResults) = 1
    /\ bResults[1].settled = "pending"
    /\ bCount.updated + bCount.failed = batchSize
    /\ \E i \in 1..batchSize : obs.outcome[bProducts[i]] = "error"
    /\ obs.outcome[bProducts[batchSize + 1]] = "none"

\* check-alerts invocations made by update-all-prices so far
BatchInvocations == obs.caPasses - obs.caRuns

\* C24: a pass invokes the evaluator at one point only, when every enumerated
\* product has settled and no pipeline is running; it reports only after that
\* one invocation has answered, whatever the items' outcomes and also with no
\* product enumerated; it has made no invocation while items are in flight.
C24_EvaluatorOncePerPass ==
    [][/\ (obs'.caPasses # obs.caPasses /\ caCaller' = "batch") =>
             /\ bPc = "loop" /\ bPc' = "alerts"
             /\ bI >= Len(bProducts)
             /\ bResults = NoResults
             /\ \A i \in DOMAIN bProducts : obs.outcome[bProducts[i]] # "none"
             /\ BatchInvocations = 0
       /\ (bPc # "done" /\ bPc' = "done") =>
             /\ bPc = "alerts"
             /\ caPc = "done" /\ caCaller = "batch"
             /\ BatchInvocations = 1
       /\ bPc' \in {"await", "sleep", "next"} => BatchInvocations' = 0]_vars

\* C24 witness: a reported pass all of whose items failed, with its one
\* evaluator invocation
C24_Witness ==
    /\ bPc = "done"
    /\ Len(bProducts) >= 2
    /\ \A i \in DOMAIN bProducts : obs.outcome[bProducts[i]] = "error"
    /\ BatchInvocations = 1
    /\ caPc = "done"

-----------------------------------------------------------------------------
(* Claims about the alerts of an evaluator pass *)

\* C25: the Alert row the evaluator inserts for a tracker carries as old_price
\* the price of the second most recent snapshot of the tracker's product when the
\* product has two snapshots or more, and the tracker's target_price otherwise
\* (stated of the step that inserts the row).
C25_OldPrice ==
    [][(caPc = "loop" /\ caPc' = "email") =>
          LET t == Head(caQueue).id
              snaps == snapshots[trackers[t].product_id]
              row == alerts'[t][Len(alerts'[t])]
          IN  /\ Len(alerts'[t]) = Len(alerts[t]) + 1
              /\ row.old_price = IF Len(snaps) >= 2 THEN snaps[Len(snaps) - 1].price
                                 ELSE trackers[t].target_price]_vars

\* C25 witness: an alert of the evaluator whose old_price is the price of the
\* snapshot before the last, different from the last price and from the target
C25_Witness ==
    \E t \in TrackerIds :
        \E i \in DOMAIN alerts[t] :
            LET snaps == snapshots[trackers[t].product_id]
            IN  /\ alerts[t][i].status = "SENT"
                /\ Len(snaps) = 2
                /\ alerts[t][i].old_price = snaps[1].price
                /\ snaps[1].price # snaps[2].price
                /\ alerts[t][i].old_price # trackers[t].target_price
                /\ alerts[t][i].new_price = snaps[2].price

\* C26: when an evaluator pass ends, alertsSent + errors is the number of
\* trackers that qualified (active, with a target, latest price at or below it).
C26_AllAccounted ==
    [][(caPc = "loop" /\ caPc' = "done") =>
          caCount.alertsSent + caCount.errors =
              Cardinality({ t \in TrackerIds : Qualifies(t) })]_vars

-----------------------------------------------------------------------------
(* Claims about availability, name and image *)

\* C27: for a page that extraction succeeds on, isAvailable is FALSE exactly when
\* the page holds one of the out-of-stock phrases of the platform it was scraped
\* as, whatever its structured-data block says.
C27_AvailabilityByPhrase ==
    (IsPage /\ xRes.result.ok) =>
        (xRes.result.isAvailable <=>
            \A ph \in OutOfStockPhrases(xRes.platform) : ph \notin xReq.fetched.page.phrases)

\* the name and the image the fallback order gives: structured block, first
\* matching pattern, then the slug of the URL or the fixed placeholder
NameByOrder(u, page) ==
    IF page.ld # <<>> /\ page.ld[1].valid /\ page.ld[1].name # ""
    THEN page.ld[1].name
    ELSE IF \E i \in DOMAIN page.namePat : page.namePat[i].hit
    THEN LET i == CHOOSE k \in DOMAIN page.namePat :
                     /\ page.namePat[k].hit
                     /\ \A j \in 1..(k - 1) : ~page.namePat[j].hit
         IN  page.namePat[i].s
    ELSE extractNameFromUrl(u)

ImageByOrder(page) ==
    LET usable == { k \in DOMAIN page.imagePat :
                      page.imagePat[k].hit /\ page.imagePat[k].s # "data:image" }
    IN  IF page.ld # <<>> /\ page.ld[1].valid /\ page.ld[1].image # ""
        THEN page.ld[1].image
        ELSE IF usable # {}
        THEN page.imagePat[CHOOSE k \in usable : \A j \in usable : k <= j].s
        ELSE Placeholder

\* C28: when the page holds a valid positive price, extraction succeeds, with the
\* name of the structured block if it has one, else of the first matching name
\* pattern, else the slug of the URL, and the image of the structured block, else
\* of the first matching pattern that is no data URI, else the placeholder.
C28_NameImageBestEffort ==
    (IsPage /\ HasScraper(xRes.platform) /\ PageHasPrice(xReq.fetched.page)) =>
        /\ xRes.result.ok
        /\ xRes.result.name = NameByOrder(xReq.url, xReq.fetched.page)
        /\ xRes.result.imageUrl = ImageByOrder(xReq.fetched.page)

-----------------------------------------------------------------------------
(* Claims about the scrape log and the writes of one attempt *)

\* the scraper call ends with this step, having got past the validation of its body
AttemptEnds == sc.pc \in {"update", "snapshot", "log", "catch"} /\ sc'.pc = "done"

\* the scrape_logs rows of a product id
LogsOf(productId) == IF productId \in ProductIds THEN scrapeLogs[productId] ELSE <<>>

\* C29: a scrape attempt that reaches the pipeline leaves exactly one new
\* scrape_logs row for its product: a SUCCESS when update and snapshot insert both
\* succeeded (the call answers 200), else a FAILED with the error message.
C29_OneLogPerAttempt ==
    [][AttemptEnds =>
          LET logs == LogsOf(sc.productId)'
          IN  /\ Len(logs) = Len(sc.logs) + 1
              /\ SubSeq(logs, 1, Len(sc.logs)) = sc.logs
              /\ logs[Len(logs)] = IF sc'.status = 200 THEN LogRow("SUCCESS", "")
                                    ELSE LogRow("FAILED", sc.res.error)]_vars

\* C30: an attempt that ends with a FAILED row leaves the Product row and the
\* product's snapshots as they were when the attempt began.
C30_FailedAttemptWritesNothing ==
    [][(AttemptEnds /\ sc.known /\ sc'.status = 500
            /\ Len(scrapeLogs'[sc.productId]) = Len(sc.logs) + 1) =>
          /\ products'[sc.productId] = sc.row
          /\ snapshots'[sc.productId] = sc.snaps]_vars


-----------------------------------------------------------------------------
(* Claims about errors of the scraper *)

\* the scrape of product p that this step ran got a response with a status
\* outside 200-299
NonOkResponse(p) ==
    /\ obs'.gets[p] # obs.gets[p]
    /\ obs'.httpStatus[p] # 0
    /\ ~(obs'.httpStatus[p] >= 200 /\ obs'.httpStatus[p] <= 299)

ScrapeSucceeded ==
    /\ sc.known
    /\ sc.res.ok
    /\ Len(snapshots[sc.productId]) = Len(sc.snaps) + 1

\* C32: an attempt whose scrape log row the store refused answers as the scrape
\* went: 200 when update and snapshot were written, otherwise 500 with the
\* message of the error that failed the scrape
C32_LogFailureMasksNothing ==
    (sc.pc = "done" /\ sc.logError) =>
        IF ScrapeSucceeded
        THEN sc.status = 200
        ELSE /\ sc.status = 500
             /\ sc.message = IF sc.res.ok THEN "Unknown error" ELSE sc.res.error

\* a second attempt whose GET was rejected and whose FAILED row was refused,
\* answered with the fetch error, after an attempt that wrote its snapshot and
\* answered 200 although its SUCCESS row was refused
C32_Witness ==
    /\ sc.pc = "done"
    /\ sc.n = 2
    /\ sc.known
    /\ sc.logError
    /\ sc.status = 500
    /\ sc.message = "fetch failed"
    /\ scrapeLogs[sc.productId] = <<>>
    /\ Len(snapshots[sc.productId]) = 1


-----------------------------------------------------------------------------
(* Claims about scrapes of one product that overlap *)

\* C33: the snapshots of a product carry snapshot_at values that never go down
\* in the order in which the rows were inserted
C33_SnapshotAtMonotone ==
    \A p \in DOMAIN ov.snapshot_at :
       \A j, k \in DOMAIN ov.snapshot_at[p] :
          j < k => ov.snapshot_at[p][j] <= ov.snapshot_at[p][k]


\* no scraper call is between its first and its last statement
NoScrapeUnderWay == \A i \in DOMAIN ov.call : ov.call[i].pc \in {"idle", "done"}

\* the snapshot of p that .order('snapshot_at', {ascending: false}) puts first
\* (among equal values, the row inserted last)
MostRecent(p) ==
    LET at == ov.snapshot_at[p]
        k == CHOOSE k \in DOMAIN at :
                \A j \in DOMAIN at : at[j] < at[k] \/ (at[j] = at[k] /\ j <= k)
    IN  snapshots[p][k]

\* C34: with no scrape under way, a product with a snapshot has the price of
\* its most recent snapshot as latest_price
C34_LatestPriceIsLastSnapshot ==
    NoScrapeUnderWay =>
        \A p \in DOMAIN ov.snapshot_at :
           snapshots[p] # <<>> => products[p].latest_price = MostRecent(p).price


-----------------------------------------------------------------------------
(* Claims about alerts and placeholder products *)

\* the product has never been scraped successfully: it is still the row the
\* tracker-creation request inserted and has no snapshot
NeverScraped(p) ==
    /\ products[p].latest_price = 0
    /\ snapshots[p] = <<>>
    /\ Successes(scrapeLogs[p]) = 0

\* C35: a tracker on a product that has never been scraped successfully has no
\* alert written by check-alerts and no notification
C35_NoAlertBeforeFirstScrape ==
    \A t \in TrackerIds :
       NeverScraped(trackers[t].product_id) =>
          /\ \A k \in DOMAIN alerts[t] : alerts[t][k].status # InsertedStatus
          /\ emails[t] = {}


\* C36: every alert row records a drop: old_price is at least new_price,
\* whether check-alerts or the scraper wrote the row
C36_AlertsRecordADrop ==
    \A t \in DOMAIN alerts :
       \A k \in DOMAIN alerts[t] : alerts[t][k].old_price >= alerts[t][k].new_price


-----------------------------------------------------------------------------
(* Claims about rejected tracker-creation requests *)

\* the request was answered 400 at the lookup of the user's tracker: "You are
\* already tracking this product"
RejectedAsDuplicate(q) ==
    IsCreate(q) /\ q.pc = "done" /\ q.status = 400 /\ q.productId # 0

\* C37: a creation request rejected because the user already tracks the
\* product has invoked no scraper (so no Product field, snapshot, scrape log or
\* alert was written for it) and has inserted no Product
C37_DuplicateHasNoEffect ==
    \A r \in DOMAIN rq :
       RejectedAsDuplicate(rq[r]) =>
          /\ rq[r].scrape = "none"
          /\ rq[r].bg = "none"
          /\ ~rq[r].created

====
